---- MODULE Spec2Model ----
(***************************************************************************)
(* Parcel query engine of landscore: ParcelService.searchParcels with its  *)
(* two callers (the POST /api/parcels/search route and the assistant's     *)
(* searchParcels tool), ParcelService.getParcelGeoJSON, and the store the  *)
(* queries run against (parcels, land_data, valuations).                   *)
(*                                                                         *)
(* JavaScript values are tagged records [k, v]; SQL text is a sequence of  *)
(* tokens [s, n]: a piece of text s followed by the placeholder $n (n = 0  *)
(* when the piece carries no placeholder).  Strings whose characters       *)
(* matter (city) are sequences of one-character strings.                   *)
(***************************************************************************)
EXTENDS Integers, Sequences, FiniteSets, TLC

(***************************************************************************)
(* Bounds of the model                                                     *)
(***************************************************************************)
MaxParcels == 2
MaxWrites == 3
MaxSearches == 2
MaxGeoCalls == 2
MaxOpCalls == 2
MaxBulk == 501
ScanEnumLimit == 3
MaxReads == 1
MaxChats == 11

(***************************************************************************)
(* JavaScript / SQL values                                                 *)
(***************************************************************************)
Undefined == [k |-> "undefined", v |-> 0]
Null == [k |-> "null", v |-> 0]
Num(n) == [k |-> "num", v |-> n]
Bool(b) == [k |-> "bool", v |-> b]
Str(s) == [k |-> "str", v |-> s]
List(l) == [k |-> "list", v |-> l]
Code(c) == [k |-> "code", v |-> c]    \* a string used as an opaque category code
Geom(g) == [k |-> "geom", v |-> g]    \* a geometry, by its envelope [w, s, e, n]

\* JavaScript truthiness of a value (the test of `if (x)`, `x && ...`, `x || y`)
Truthy(x) ==
  CASE x.k = "undefined" -> FALSE
    [] x.k = "null" -> FALSE
    [] x.k = "num" -> x.v # 0
    [] x.k = "bool" -> x.v
    [] x.k = "str" -> x.v # <<>>
    [] x.k = "code" -> x.v # ""
    [] x.k = "list" -> TRUE
    [] x.k = "geom" -> TRUE
    [] x.k = "ratio" -> x.n # 0
    [] x.k = "nan" -> FALSE

\* JavaScript `a || b`
JsOr(a, b) == IF Truthy(a) THEN a ELSE b

NaN == [k |-> "nan", v |-> 0]

Digit(c) ==
  CASE c = "0" -> 0 [] c = "1" -> 1 [] c = "2" -> 2 [] c = "3" -> 3 [] c = "4" -> 4
    [] c = "5" -> 5 [] c = "6" -> 6 [] c = "7" -> 7 [] c = "8" -> 8 [] c = "9" -> 9
    [] OTHER -> -1

\* The value of the leading decimal digits of cs, or -1 when cs starts with none
RECURSIVE LeadingDigits(_, _)
LeadingDigits(cs, acc) ==
  IF cs = <<>> \/ Digit(Head(cs)) < 0 THEN acc
  ELSE LeadingDigits(Tail(cs), (IF acc < 0 THEN 0 ELSE acc * 10) + Digit(Head(cs)))

\* parseInt(x, 10): a number is first turned into its decimal text and reads back as
\* itself; a string gives its leading optionally signed digits, or NaN
ParseInt(x) ==
  IF x.k = "num" THEN x
  ELSE IF x.k # "str" THEN NaN
  ELSE LET neg == x.v # <<>> /\ Head(x.v) = "-"
           n == LeadingDigits(IF neg THEN Tail(x.v) ELSE x.v, -1)
       IN IF n < 0 THEN NaN ELSE Num(IF neg THEN 0 - n ELSE n)

\* parseFloat(x), on text without fraction or exponent, where it reads the digits
\* parseInt reads
ParseFloat(x) == ParseInt(x)

\* Number(x), the conversion z.coerce.number() applies: null and the empty string
\* give 0, a boolean 0 or 1, decimal text its value, anything else NaN
CoerceNumber(x) ==
  CASE x.k = "num" -> x
    [] x.k = "null" -> Num(0)
    [] x.k = "bool" -> Num(IF x.v THEN 1 ELSE 0)
    [] x.k = "str" ->
         IF x.v = <<>> THEN Num(0)
         ELSE IF \A i \in 1..Len(x.v) : Digit(x.v[i]) >= 0 \/ (i = 1 /\ x.v[i] = "-" /\ Len(x.v) > 1)
           THEN ParseInt(x)
           ELSE NaN
    [] OTHER -> NaN

\* Boolean(x), the conversion z.coerce.boolean() applies
CoerceBoolean(x) == Bool(Truthy(x))

Min(a, b) == IF a < b THEN a ELSE b
Max(a, b) == IF a > b THEN a ELSE b

(***************************************************************************)
(* Program constants                                                       *)
(***************************************************************************)
DefaultLimit == 100
DefaultOffset == 0
ToolDefaultLimit == 10
SchemaMinLimit == 1
SchemaMaxLimit == 500
RouteLimitFallback == 100
RouteOffsetFallback == 0
DefaultZoom == 12
ZoomFar == 10
ZoomNear == 14
TolFar == 100
TolMid == 10
TolNear == 1
FeatureCap == 500
RouteDefaultRadius == 1000
RouteDefaultNearLimit == 20
NearDefaultLimit == 20
ToolDefaultRadius == 1000
ToolDefaultNearLimit == 10

(***************************************************************************)
(* State                                                                   *)
(***************************************************************************)
VARIABLES
  parcels,      \* table parcels: id -> [area_acres, city, geometry]
  land_data,    \* table land_data: parcel id -> row (unique per parcel)
  valuations,   \* table valuations: set of [parcel_id, valuation_date, estimated_price]
  writes,       \* number of ingestion statements committed so far
  pc,           \* position of the search invocation
  caller,       \* "http" | "tool" | "none"
  params,       \* the ParcelSearchParams searchParcels was called with
  conditions,   \* const conditions: string[]
  values,       \* const values: unknown[]
  paramIndex,   \* let paramIndex
  whereClause,  \* const whereClause
  countQuery,   \* the count statement as issued: [where, binds]
  rowQuery,     \* the row statement as issued: [where, limitPh, offsetPh, binds]
  total,        \* const total
  sqlRows,      \* rows the row statement returned
  response,     \* what the caller receives
  changed,      \* history: a write was committed since the invocation started
  searches,     \* invocations started so far
  prev,         \* history: the result of the previous invocation, kept while the
                \* same request is repeated and no write is committed
  geoPc,        \* position of the getParcelGeoJSON invocation
  geoBBox,      \* the BBoxQuery getParcelGeoJSON was called with
  tolerance,    \* const tolerance, in units of 0.00001 degree
  geoQuery,     \* the feature statement as issued: [binds]
  geoResult,    \* the FeatureCollection returned: its features
  geoCalls,     \* getParcelGeoJSON invocations started so far
  prevGeo,      \* history: zoom and tolerance of the previous invocation
  listPc,       \* position of the getParcelsInBBox invocation
  listQuery,    \* the list statement as issued: [binds]
  listResult,   \* what GET /list answers: [status, data]
  nearPc,       \* position of the getParcelsNearPoint invocation
  nearCaller,   \* "http" | "tool" | "none"
  nearQuery,    \* the near-point statement as issued: [binds]
  nearResult,   \* what the caller receives: [status, data]
  statsPc,      \* position of the getParcelStats invocation
  statsAt,      \* history: the value of writes when the aggregate statement ran
  statsRow,     \* const stats: the row of the aggregate statement
  statsResult,  \* what getParcelStats returns: [status, ...]
  opCalls,      \* list, near-point and stats invocations started so far
  messages,     \* table chat_messages of one session, in created_at order: [id, role]
  chatPc,       \* position of the chat invocation
  chatPrompt,   \* id of the message saved for the current prompt
  chatHistory,  \* the history handed to startChat: [id, role]
  chatSent,     \* ids of the messages sent with chat.sendMessage(prompt)
  chats,        \* chat invocations started so far
  seedArea,     \* the area the seed drew for the parcel, in units of 1e-7 acre
  seedRow       \* the areas the seed stores for it: [areaAcres, areaSqft]

storeVars == <<parcels, land_data, valuations, writes>>
searchVars == <<pc, caller, params, conditions, values, paramIndex, whereClause,
                countQuery, rowQuery, total, sqlRows, response, changed,
                searches, prev>>
geoVars == <<geoPc, geoBBox, tolerance, geoQuery, geoResult, geoCalls, prevGeo>>
listVars == <<listPc, listQuery, listResult>>
nearVars == <<nearPc, nearCaller, nearQuery, nearResult>>
statsVars == <<statsPc, statsAt, statsRow, statsResult>>
chatVars == <<messages, chatPc, chatPrompt, chatHistory, chatSent, chats>>
seedVars == <<seedArea, seedRow>>
auxVars == <<chatVars, seedVars>>
opVars == <<listVars, nearVars, statsVars, opCalls, auxVars>>
vars == <<parcels, land_data, valuations, writes, pc, caller, params, conditions,
          values, paramIndex, whereClause, countQuery, rowQuery, total, sqlRows,
          response, changed, searches, prev, geoPc, geoBBox, tolerance, geoQuery,
          geoResult, geoCalls, prevGeo, listPc, listQuery, listResult, nearPc,
          nearCaller, nearQuery, nearResult, statsPc, statsAt, statsRow, statsResult,
          opCalls, messages, chatPc, chatPrompt, chatHistory, chatSent, chats,
          seedArea, seedRow>>

(***************************************************************************)
(* Filter compilation (searchParcels, the synchronous part)                *)
(***************************************************************************)
\* A SQL token: text s followed by placeholder $n (n = 0: no placeholder)
Tok(s, n) == [s |-> s, n |-> n]

\* The ten `if (...) { conditions.push(...); values.push(...) }` statements, in
\* source order: the field read, the test applied, the fragment text pushed.
FilterSteps ==
  << [field |-> "minAreaAcres",    test |-> "defined",  text |-> "p.area_acres >= $"],
     [field |-> "maxAreaAcres",    test |-> "defined",  text |-> "p.area_acres <= $"],
     [field |-> "minPrice",        test |-> "defined",  text |-> "v.estimated_price >= $"],
     [field |-> "maxPrice",        test |-> "defined",  text |-> "v.estimated_price <= $"],
     [field |-> "zoningCodes",     test |-> "nonempty", text |-> "ld.zoning_code = ANY($"],
     [field |-> "soilTypes",       test |-> "nonempty", text |-> "ld.soil_type = ANY($"],
     [field |-> "croplandClasses", test |-> "nonempty", text |-> "ld.cropland_class = ANY($"],
     [field |-> "hasWaterAccess",  test |-> "defined",  text |-> "ld.has_water_access = $"],
     [field |-> "hasRoadAccess",   test |-> "defined",  text |-> "ld.has_road_access = $"],
     [field |-> "city",            test |-> "truthy",   text |-> "LOWER(p.city) LIKE LOWER($"] >>

\* Variant: a set field is tested for presence alone
StepTestAnyArray(step, p) ==
  LET x == p[step.field] IN
  CASE step.test = "defined" -> x # Undefined
    [] step.test = "nonempty" -> Truthy(x)
    [] step.test = "truthy" -> Truthy(x)

\* The condition of one `if`: x !== undefined, x && x.length > 0, or x
StepTest(step, p) ==
  LET x == p[step.field] IN
  CASE step.test = "defined" -> x # Undefined
    [] step.test = "nonempty" -> Truthy(x) /\ Len(x.v) > 0
    [] step.test = "truthy" -> Truthy(x)

\* Variant: the city text is pushed without the surrounding % signs
StepValueNoWildcard(step, p) == p[step.field]

\* The value one `if` pushes: the field itself, or `%${city}%` for city
StepValue(step, p) ==
  IF step.field = "city"
    THEN Str(<<"%">> \o p.city.v \o <<"%">>)
    ELSE p[step.field]

\* Variant: paramIndex advances for every field, present or not
ApplyStepDrift(step, p, st) ==
  IF StepTest(step, p)
    THEN [conditions |-> Append(st.conditions, Tok(step.text, st.paramIndex)),
          values     |-> Append(st.values, StepValue(step, p)),
          paramIndex |-> st.paramIndex + 1]
    ELSE [st EXCEPT !.paramIndex = st.paramIndex + 1]

\* Variant: values.unshift(...) in place of values.push(...)
ApplyStepUnshift(step, p, st) ==
  IF StepTest(step, p)
    THEN [conditions |-> Append(st.conditions, Tok(step.text, st.paramIndex)),
          values     |-> <<StepValue(step, p)>> \o st.values,
          paramIndex |-> st.paramIndex + 1]
    ELSE st

\* Variant: the value is written into the fragment text instead of being bound
ApplyStepInline(step, p, st) ==
  IF StepTest(step, p)
    THEN [st EXCEPT !.conditions =
            Append(st.conditions, [s |-> step.text, n |-> 0, inline |-> StepValue(step, p)])]
    ELSE st

\* One `if` statement applied to the builder state st = [conditions, values, paramIndex]
ApplyStep(step, p, st) ==
  IF StepTest(step, p)
    THEN [conditions |-> Append(st.conditions, Tok(step.text, st.paramIndex)),
          values     |-> Append(st.values, StepValue(step, p)),
          paramIndex |-> st.paramIndex + 1]
    ELSE st

RECURSIVE RunSteps(_, _, _)
RunSteps(i, p, st) ==
  IF i > Len(FilterSteps) THEN st
  ELSE RunSteps(i + 1, p, ApplyStep(FilterSteps[i], p, st))

\* conditions = ['1=1'], values = [], paramIndex = 1, then the ten ifs
BuildConditions(p) ==
  RunSteps(1, p, [conditions |-> <<Tok("1=1", 0)>>, values |-> <<>>, paramIndex |-> 1])

\* conditions.join(' AND ')
RECURSIVE Join(_)
Join(cs) ==
  IF Len(cs) = 0 THEN <<>>
  ELSE IF Len(cs) = 1 THEN cs
  ELSE <<cs[1], Tok(" AND ", 0)>> \o Join(Tail(cs))

\* limit = 100 and offset = 0 when the caller gives none (destructuring defaults)
LimitOf(p) == IF p.limit = Undefined THEN Num(DefaultLimit) ELSE p.limit
OffsetOf(p) == IF p.offset = Undefined THEN Num(DefaultOffset) ELSE p.offset

\* Variant: the count statement carries no filter
MakeCountQueryUnfiltered(where, vals) == [where |-> <<Tok("1=1", 0)>>, binds |-> <<>>]

\* The count statement: SELECT COUNT(DISTINCT p.id) ... WHERE ${whereClause}, ...values
MakeCountQuery(where, vals) == [where |-> where, binds |-> vals]

\* Variant: offset and limit are passed in the wrong order
MakeRowQuerySwapped(where, vals, idx, p) ==
  [where    |-> where,
   limitPh  |-> idx,
   offsetPh |-> idx + 1,
   binds    |-> vals \o <<OffsetOf(p), LimitOf(p)>>]

\* The row statement: ... WHERE ${whereClause} ORDER BY v.estimated_price DESC
\* NULLS LAST LIMIT $${paramIndex++} OFFSET $${paramIndex++}, ...values, limit, offset
MakeRowQuery(where, vals, idx, p) ==
  [where    |-> where,
   limitPh  |-> idx,
   offsetPh |-> idx + 1,
   binds    |-> vals \o <<LimitOf(p), OffsetOf(p)>>]

(***************************************************************************)
(* The store: what PostgreSQL computes for the two statements              *)
(***************************************************************************)
ParcelIds == DOMAIN parcels

\* LEFT JOIN LATERAL (SELECT estimated_price FROM valuations WHERE parcel_id = p.id
\* ORDER BY valuation_date DESC LIMIT 1) v ON true
\* Variant: the subquery ordered by valuation_date ascending
EarliestPrice(id) ==
  LET vs == {x \in valuations : x.parcel_id = id} IN
  IF vs = {} THEN Null
  ELSE Num((CHOOSE x \in vs : \A y \in vs : y.valuation_date >= x.valuation_date).estimated_price)

\* (SELECT estimated_price FROM valuations WHERE parcel_id = p.id
\*  ORDER BY valuation_date DESC LIMIT 1)
LatestPrice(id) ==
  LET vs == {x \in valuations : x.parcel_id = id} IN
  IF vs = {} THEN Null
  ELSE Num((CHOOSE x \in vs : \A y \in vs : y.valuation_date <= x.valuation_date).estimated_price)

\* Variant: the joined row with the price of a parcel without valuation read as 0
JoinedRowCoalesced(id) ==
  LET hasLd == id \in DOMAIN land_data IN
  [id               |-> id,
   area_acres       |-> parcels[id].area_acres,
   city             |-> parcels[id].city,
   estimated_price  |-> IF LatestPrice(id) = Null THEN Num(0) ELSE LatestPrice(id),
   zoning_code      |-> IF hasLd THEN land_data[id].zoning_code ELSE Null,
   soil_type        |-> IF hasLd THEN land_data[id].soil_type ELSE Null,
   cropland_class   |-> IF hasLd THEN land_data[id].cropland_class ELSE Null,
   has_water_access |-> IF hasLd THEN Bool(land_data[id].has_water_access) ELSE Null,
   has_road_access  |-> IF hasLd THEN Bool(land_data[id].has_road_access) ELSE Null]

\* One row of parcels p LEFT JOIN land_data ld LEFT JOIN LATERAL (...) v
JoinedRow(id) ==
  LET hasLd == id \in DOMAIN land_data IN
  [id               |-> id,
   area_acres       |-> parcels[id].area_acres,
   city             |-> parcels[id].city,
   estimated_price  |-> LatestPrice(id),
   zoning_code      |-> IF hasLd THEN land_data[id].zoning_code ELSE Null,
   soil_type        |-> IF hasLd THEN land_data[id].soil_type ELSE Null,
   cropland_class   |-> IF hasLd THEN land_data[id].cropland_class ELSE Null,
   has_water_access |-> IF hasLd THEN Bool(land_data[id].has_water_access) ELSE Null,
   has_road_access  |-> IF hasLd THEN Bool(land_data[id].has_road_access) ELSE Null]

\* LOWER(text)
LowerChar(c) ==
  CASE c = "A" -> "a"
    [] c = "B" -> "b"
    [] OTHER -> c
Lower(t) == [i \in 1..Len(t) |-> LowerChar(t[i])]

\* text LIKE pattern: % matches any run of characters, _ any one character
RECURSIVE Like(_, _)
Like(t, pat) ==
  IF pat = <<>> THEN t = <<>>
  ELSE IF Head(pat) = "%"
    THEN Like(t, Tail(pat)) \/ (t # <<>> /\ Like(Tail(t), pat))
  ELSE t # <<>> /\ (Head(pat) = "_" \/ Head(pat) = Head(t)) /\ Like(Tail(t), Tail(pat))

\* The type a fragment's placeholder must be bound with
BindKind(text) ==
  CASE text \in {"p.area_acres >= $", "p.area_acres <= $",
                 "v.estimated_price >= $", "v.estimated_price <= $"} -> "num"
    [] text \in {"ld.zoning_code = ANY($", "ld.soil_type = ANY($",
                 "ld.cropland_class = ANY($"} -> "list"
    [] text \in {"ld.has_water_access = $", "ld.has_road_access = $"} -> "bool"
    [] text = "LOWER(p.city) LIKE LOWER($" -> "str"
    [] OTHER -> "none"

\* A statement the store rejects: a placeholder without a bound value, or a bound
\* value of the wrong type
WhereFails(where, binds) ==
  \E i \in 1..Len(where) :
    /\ where[i].n # 0
    /\ \/ where[i].n > Len(binds)
       \/ binds[where[i].n].k \notin {BindKind(where[i].s), "null"}

InList(c, l) == c.k = "code" /\ \E i \in 1..Len(l) : l[i] = c.v

\* Whether one token of the WHERE text is true of a joined row (SQL: a comparison
\* with NULL is not true)
TokenTrue(tok, binds, row) ==
  IF tok.n = 0 THEN TRUE     \* '1=1' and the ' AND ' separators
  ELSE LET b == binds[tok.n] IN
    IF b.k = "null" THEN FALSE
    ELSE CASE tok.s = "p.area_acres >= $" -> row.area_acres >= b.v
      [] tok.s = "p.area_acres <= $" -> row.area_acres <= b.v
      [] tok.s = "v.estimated_price >= $" ->
           row.estimated_price.k = "num" /\ row.estimated_price.v >= b.v
      [] tok.s = "v.estimated_price <= $" ->
           row.estimated_price.k = "num" /\ row.estimated_price.v <= b.v
      [] tok.s = "ld.zoning_code = ANY($" -> InList(row.zoning_code, b.v)
      [] tok.s = "ld.soil_type = ANY($" -> InList(row.soil_type, b.v)
      [] tok.s = "ld.cropland_class = ANY($" -> InList(row.cropland_class, b.v)
      [] tok.s = "ld.has_water_access = $" ->
           row.has_water_access.k = "bool" /\ row.has_water_access.v = b.v
      [] tok.s = "ld.has_road_access = $" ->
           row.has_road_access.k = "bool" /\ row.has_road_access.v = b.v
      [] tok.s = "LOWER(p.city) LIKE LOWER($" ->
           row.city.k = "str" /\ Like(Lower(row.city.v), Lower(b.v))

\* WHERE ${whereClause} on one joined row
WhereTrue(where, binds, row) ==
  \A i \in 1..Len(where) : TokenTrue(where[i], binds, row)

\* Ids of the parcels the WHERE clause keeps
Matching(where, binds) ==
  {id \in ParcelIds : WhereTrue(where, binds, JoinedRow(id))}

\* SELECT COUNT(DISTINCT p.id) ... WHERE ...
ExecCount(q) == Cardinality(Matching(q.where, q.binds))

RECURSIVE Perms(_)
Perms(S) ==
  IF S = {} THEN {<<>>}
  ELSE UNION {{<<x>> \o t : t \in Perms(S \ {x})} : x \in S}

\* Variant: ORDER BY v.estimated_price DESC, where PostgreSQL puts NULLs first
StrictlyBeforeNullsFirst(a, b) ==
  /\ b.estimated_price.k = "num"
  /\ \/ a.estimated_price.k = "null"
     \/ a.estimated_price.v > b.estimated_price.v

\* ORDER BY v.estimated_price DESC NULLS LAST: a must come before b
StrictlyBefore(a, b) ==
  /\ a.estimated_price.k = "num"
  /\ \/ b.estimated_price.k = "null"
     \/ a.estimated_price.v > b.estimated_price.v

\* Every order of the matching rows the ORDER BY clause allows: rows that compare
\* equal (the same price, or no price) come in whatever order the executor finds them
OrderedResults(ids) ==
  {o \in Perms(ids) :
     \A i, j \in 1..Len(o) :
       i < j => ~StrictlyBefore(JoinedRow(o[j]), JoinedRow(o[i]))}

\* The row statement is rejected: bad WHERE binding, or LIMIT / OFFSET not bound to
\* a non-negative number
RowQueryFails(q) ==
  \/ WhereFails(q.where, q.binds)
  \/ q.offsetPh > Len(q.binds)
  \/ q.binds[q.limitPh].k # "num"
  \/ q.binds[q.offsetPh].k # "num"
  \/ q.binds[q.limitPh].v < 0
  \/ q.binds[q.offsetPh].v < 0

\* LIMIT $n OFFSET $m applied to one ordering
Page(o, lim, off) == SubSeq(o, off + 1, Min(off + lim, Len(o)))

\* The columns the row statement selects (those the callers read)
SqlRow(id) ==
  LET r == JoinedRow(id) IN
  [id |-> r.id, city |-> r.city, area_acres |-> r.area_acres,
   estimated_price |-> r.estimated_price, zoning_code |-> r.zoning_code]

\* Every result the row statement may return on the current store
ExecRows(q) ==
  LET lim == q.binds[q.limitPh].v
      off == q.binds[q.offsetPh].v
  IN {[i \in 1..Len(Page(o, lim, off)) |-> SqlRow(Page(o, lim, off)[i])] :
        o \in OrderedResults(Matching(q.where, q.binds))}

\* parcels.map((p) => ({...})) : the ParcelListItem built from one row
MapRow(r) ==
  [id             |-> r.id,
   city           |-> JsOr(r.city, Undefined),
   areaAcres      |-> r.area_acres,
   estimatedPrice |-> JsOr(r.estimated_price, Undefined),
   zoningCode     |-> JsOr(r.zoning_code, Undefined)]

MapRows(rs) == [i \in 1..Len(rs) |-> MapRow(rs[i])]

(***************************************************************************)
(* Callers of searchParcels                                                *)
(***************************************************************************)
NumericFields == {"minAreaAcres", "maxAreaAcres", "minPrice", "maxPrice"}
SetFields == {"zoningCodes", "soilTypes", "croplandClasses"}
FlagFields == {"hasWaterAccess", "hasRoadAccess"}

\* parcelSearchSchema accepts the body: z.coerce.number().min(0).optional() for the
\* four ranges, arrays of strings (the comma-separated text form is left out),
\* z.coerce.boolean() for the flags, a string, limit in [1, 500], offset >= 0; no
\* field is compared with another
SchemaAccepts(body) ==
  /\ \A f \in NumericFields :
       body[f] = Undefined \/ (CoerceNumber(body[f]).k = "num" /\ CoerceNumber(body[f]).v >= 0)
  /\ \A f \in SetFields : body[f].k \in {"undefined", "list"}
  /\ body.city.k \in {"undefined", "str"}
  /\ \/ body.limit = Undefined
     \/ /\ CoerceNumber(body.limit).k = "num"
        /\ CoerceNumber(body.limit).v >= SchemaMinLimit
        /\ CoerceNumber(body.limit).v <= SchemaMaxLimit
  /\ \/ body.offset = Undefined
     \/ (CoerceNumber(body.offset).k = "num" /\ CoerceNumber(body.offset).v >= 0)

\* The value parcelSearchSchema produces: the coerced fields, with .default(100) and
\* .default(0) filled in
SchemaOutput(body) ==
  [f \in DOMAIN body |->
     IF f \in NumericFields
       THEN IF body[f] = Undefined THEN Undefined ELSE CoerceNumber(body[f])
     ELSE IF f \in FlagFields
       THEN IF body[f] = Undefined THEN Undefined ELSE CoerceBoolean(body[f])
     ELSE IF f = "limit"
       THEN IF body[f] = Undefined THEN Num(DefaultLimit) ELSE CoerceNumber(body[f])
     ELSE IF f = "offset"
       THEN IF body[f] = Undefined THEN Num(DefaultOffset) ELSE CoerceNumber(body[f])
     ELSE body[f]]

\* executeFunction, case 'searchParcels': the object built from the tool arguments
ToolParams(args) ==
  [minAreaAcres    |-> args.minAreaAcres,
   maxAreaAcres    |-> args.maxAreaAcres,
   minPrice        |-> args.minPrice,
   maxPrice        |-> args.maxPrice,
   zoningCodes     |-> args.zoningCodes,
   soilTypes       |-> args.soilTypes,
   croplandClasses |-> args.croplandClasses,
   hasWaterAccess  |-> args.hasWaterAccess,
   hasRoadAccess   |-> args.hasRoadAccess,
   city            |-> args.city,
   limit           |-> JsOr(args.limit, Num(ToolDefaultLimit)),
   offset          |-> Undefined]

NoParams ==
  [minAreaAcres |-> Undefined, maxAreaAcres |-> Undefined, minPrice |-> Undefined,
   maxPrice |-> Undefined, zoningCodes |-> Undefined, soilTypes |-> Undefined,
   croplandClasses |-> Undefined, hasWaterAccess |-> Undefined,
   hasRoadAccess |-> Undefined, city |-> Undefined, limit |-> Undefined,
   offset |-> Undefined]

NoQuery == [where |-> <<>>, limitPh |-> 0, offsetPh |-> 0, binds |-> <<>>]
NoResponse ==
  [status |-> "none", data |-> <<>>, total |-> Undefined, limit |-> Undefined,
   offset |-> Undefined, hasMore |-> Undefined]
NoPrev == [set |-> FALSE, paged |-> FALSE, offset |-> 0, data |-> <<>>]

\* Variant: hasMore compares the page length alone with the total
RouteResponseNoOffset(p, items, tot) ==
  [status  |-> "ok",
   data    |-> items,
   total   |-> Num(tot),
   limit   |-> JsOr(p.limit, Num(RouteLimitFallback)),
   offset  |-> JsOr(p.offset, Num(RouteOffsetFallback)),
   hasMore |-> Bool(Len(items) < tot)]

\* res.json({success, data, pagination: {total, limit, offset, hasMore}}) of the route
RouteResponse(p, items, tot) ==
  [status  |-> "ok",
   data    |-> items,
   total   |-> Num(tot),
   limit   |-> JsOr(p.limit, Num(RouteLimitFallback)),
   offset  |-> JsOr(p.offset, Num(RouteOffsetFallback)),
   hasMore |-> Bool(JsOr(p.offset, Num(RouteOffsetFallback)).v + Len(items) < tot)]

\* What executeFunction returns for the tool: searchParcels' own {parcels, total}
ToolResponse(items, tot) ==
  [status |-> "ok", data |-> items, total |-> Num(tot), limit |-> Undefined,
   offset |-> Undefined, hasMore |-> Undefined]

ErrorResponse(kind) ==
  [status |-> kind, data |-> <<>>, total |-> Undefined, limit |-> Undefined,
   offset |-> Undefined, hasMore |-> Undefined]

(***************************************************************************)
(* Actions of a search invocation                                          *)
(***************************************************************************)
Settled == pc \in {"idle", "done", "rejected", "failed"}

\* searchParcels(p) up to its first await: build conditions and values, join, issue
\* the count statement
BeginSearch(who, p) ==
  LET st == BuildConditions(p)
      w == Join(st.conditions)
  IN /\ caller' = who
     /\ params' = p
     /\ conditions' = st.conditions
     /\ values' = st.values
     /\ paramIndex' = st.paramIndex
     /\ whereClause' = w
     /\ countQuery' = MakeCountQuery(w, st.values)
     /\ rowQuery' = NoQuery
     /\ total' = 0
     /\ sqlRows' = <<>>
     /\ response' = NoResponse
     /\ changed' = FALSE
     /\ searches' = searches + 1
     /\ prev' = IF /\ pc = "done" /\ caller = who /\ ~changed
                     /\ [params EXCEPT !.offset = Undefined] = [p EXCEPT !.offset = Undefined]
                  THEN [set |-> params = p, paged |-> TRUE, offset |-> OffsetOf(params).v,
                        data |-> response.data]
                  ELSE NoPrev
     /\ pc' = "count"

\* validate(parcelSearchSchema, 'body') refuses the request before the handler runs
Reject ==
  /\ caller' = "http"
  /\ params' = NoParams
  /\ conditions' = <<>>
  /\ values' = <<>>
  /\ paramIndex' = 1
  /\ whereClause' = <<>>
  /\ countQuery' = NoQuery
  /\ rowQuery' = NoQuery
  /\ total' = 0
  /\ sqlRows' = <<>>
  /\ response' = ErrorResponse("ValidationError")
  /\ changed' = FALSE
  /\ searches' = searches + 1
  /\ prev' = NoPrev
  /\ pc' = "rejected"

\* POST /api/parcels/search
HttpSearch(body) ==
  /\ Settled
  /\ searches < MaxSearches
  /\ IF SchemaAccepts(body) THEN BeginSearch("http", SchemaOutput(body)) ELSE Reject
  /\ UNCHANGED storeVars
  /\ UNCHANGED geoVars
  /\ UNCHANGED opVars

\* The assistant calls the searchParcels tool
ToolSearch(args) ==
  /\ Settled
  /\ searches < MaxSearches
  /\ BeginSearch("tool", ToolParams(args))
  /\ UNCHANGED storeVars
  /\ UNCHANGED geoVars
  /\ UNCHANGED opVars

\* The store answers the count statement; searchParcels issues the row statement
CountQuery ==
  /\ pc = "count"
  /\ IF WhereFails(countQuery.where, countQuery.binds)
       THEN /\ pc' = "failed"
            /\ response' = ErrorResponse("StoreError")
            /\ UNCHANGED <<total, rowQuery, paramIndex>>
       ELSE /\ total' = ExecCount(countQuery)
            /\ rowQuery' = MakeRowQuery(whereClause, values, paramIndex, params)
            /\ paramIndex' = paramIndex + 2
            /\ pc' = "rows"
            /\ UNCHANGED response
  /\ UNCHANGED <<caller, params, conditions, values, whereClause, countQuery, sqlRows,
                 changed, searches, prev>>
  /\ UNCHANGED storeVars
  /\ UNCHANGED geoVars
  /\ UNCHANGED opVars

\* The store answers the row statement; searchParcels maps the rows and returns, and
\* the caller builds its response
RowQuery ==
  /\ pc = "rows"
  /\ IF RowQueryFails(rowQuery)
       THEN /\ pc' = "failed"
            /\ response' = ErrorResponse("StoreError")
            /\ UNCHANGED sqlRows
       ELSE \E rs \in ExecRows(rowQuery) :
              /\ sqlRows' = rs
              /\ response' = IF caller = "http"
                               THEN RouteResponse(params, MapRows(rs), total)
                               ELSE ToolResponse(MapRows(rs), total)
              /\ pc' = "done"
  /\ UNCHANGED <<caller, params, conditions, values, paramIndex, whereClause,
                 countQuery, rowQuery, total, changed, searches, prev>>
  /\ UNCHANGED storeVars
  /\ UNCHANGED geoVars
  /\ UNCHANGED opVars

(***************************************************************************)
(* The ingestion path (seed.ts): committed statements that change the store *)
(***************************************************************************)
ParcelTemplates ==
  { [area_acres |-> 5,  city |-> Str(<<"A", "b">>), geometry |-> Null],
    [area_acres |-> 12, city |-> Null, geometry |-> Null] }

\* Envelopes of the polygons generateParcelPolygon draws
GeometryTemplates ==
  { [w |-> 1, s |-> 1, e |-> 2, n |-> 2],
    [w |-> 5, s |-> 5, e |-> 6, n |-> 6] }

LandTemplates ==
  { [zoning_code |-> Code("AGRICULTURAL"), soil_type |-> Code("LOAM"),
     cropland_class |-> Code("PRIME"), has_water_access |-> TRUE,
     has_road_access |-> TRUE],
    [zoning_code |-> Code("RESIDENTIAL"), soil_type |-> Null,
     cropland_class |-> Null, has_water_access |-> FALSE,
     has_road_access |-> TRUE] }

Prices == {0, 100}

\* A committed write leaves the invocation alone; the history variables note it
Committed ==
  /\ changed' = TRUE
  /\ prev' = NoPrev
  /\ UNCHANGED <<pc, caller, params, conditions, values, paramIndex, whereClause,
                 countQuery, rowQuery, total, sqlRows, response, searches>>
  /\ UNCHANGED geoVars
  /\ UNCHANGED opVars

\* prisma.parcel.createMany: a new parcel row (its geometry column is still NULL)
InsertParcel(t) ==
  /\ writes < MaxWrites
  /\ Cardinality(ParcelIds) < MaxParcels
  /\ parcels' = [id \in ParcelIds \cup {Cardinality(ParcelIds) + 1} |->
                   IF id \in ParcelIds THEN parcels[id] ELSE t]
  /\ writes' = writes + 1
  /\ UNCHANGED <<land_data, valuations>>
  /\ Committed

\* prisma.landData.createMany: the land data row of a parcel that has none
InsertLandData(id, t) ==
  /\ writes < MaxWrites
  /\ id \in ParcelIds \ DOMAIN land_data
  /\ land_data' = [x \in DOMAIN land_data \cup {id} |->
                     IF x = id THEN t ELSE land_data[x]]
  /\ writes' = writes + 1
  /\ UNCHANGED <<parcels, valuations>>
  /\ Committed

\* prisma.valuation.createMany: a new valuation of a parcel; valuation_date is the
\* column default CURRENT_TIMESTAMP, so it is later than the parcel's earlier ones
InsertValuation(id, price) ==
  /\ writes < MaxWrites
  /\ id \in ParcelIds
  /\ valuations' = valuations \cup
       {[parcel_id |-> id,
         valuation_date |-> Cardinality({x \in valuations : x.parcel_id = id}) + 1,
         estimated_price |-> price]}
  /\ writes' = writes + 1
  /\ UNCHANGED <<parcels, land_data>>
  /\ Committed

\* UPDATE parcels SET geometry = ST_SetSRID(ST_GeomFromGeoJSON($1), 4326) WHERE id = $2
UpdateGeometry(id, g) ==
  /\ writes < MaxWrites
  /\ id \in ParcelIds
  /\ parcels[id].geometry = Null
  /\ parcels' = [parcels EXCEPT ![id].geometry = Geom(g)]
  /\ writes' = writes + 1
  /\ UNCHANGED <<land_data, valuations>>
  /\ Committed

Ingest ==
  \/ \E t \in ParcelTemplates : InsertParcel(t)
  \/ \E id \in ParcelIds, t \in LandTemplates : InsertLandData(id, t)
  \/ \E id \in ParcelIds, price \in Prices : InsertValuation(id, price)

(***************************************************************************)
(* getParcelGeoJSON                                                        *)
(***************************************************************************)
\* Variant: the two coarser bands are exchanged
ToleranceForSwapped(zoom) ==
  IF zoom < ZoomFar THEN TolMid
  ELSE IF zoom < ZoomNear THEN TolFar
  ELSE TolNear

\* const tolerance = zoom < 10 ? 0.001 : zoom < 14 ? 0.0001 : 0.00001
ToleranceFor(zoom) ==
  IF zoom < ZoomFar THEN TolFar
  ELSE IF zoom < ZoomNear THEN TolMid
  ELSE TolNear

\* const { north, south, east, west, zoom = 12 } = bbox
ZoomOf(bbox) == IF bbox.zoom = Undefined THEN DefaultZoom ELSE bbox.zoom.v

\* The feature statement: ..., tolerance, west, south, east, north
MakeGeoQuery(bbox) ==
  [binds |-> <<ToleranceFor(ZoomOf(bbox)), bbox.west, bbox.south, bbox.east, bbox.north>>]

\* p.geometry && ST_MakeEnvelope($2, $3, $4, $5, 4326): the bounding boxes overlap
Overlaps(g, x1, y1, x2, y2) ==
  /\ g.k = "geom"
  /\ g.v.w <= Max(x1, x2) /\ Min(x1, x2) <= g.v.e
  /\ g.v.s <= Max(y1, y2) /\ Min(y1, y2) <= g.v.n

\* The ids of S in ascending order
Ascending(S) == SelectSeq([i \in 1..Cardinality(ParcelIds) |-> i], LAMBDA i : i \in S)

Reverse(o) == [i \in 1..Len(o) |-> o[Len(o) + 1 - i]]

\* The orders in which the executor may produce the rows of a statement that has no
\* ORDER BY: every order of a small row set; of a larger one, a forward and a
\* backward scan
ScanOrders(S) ==
  IF Cardinality(S) <= ScanEnumLimit THEN Perms(S)
  ELSE {Ascending(S), Reverse(Ascending(S))}

\* Variant: the statement has no LIMIT clause
CapRowsUnbounded(o) == o

\* LIMIT 500
CapRows(o) == SubSeq(o, 1, Min(Len(o), FeatureCap))

\* The rows of the feature statement, LIMIT 500 and no ORDER BY: the first FeatureCap
\* (or all, when fewer) of the parcels that overlap, in an order of the executor's
ExecGeo(q) ==
  LET hit == {id \in ParcelIds :
                Overlaps(parcels[id].geometry, q.binds[2], q.binds[3], q.binds[4], q.binds[5])}
  IN {CapRows(o) : o \in ScanOrders(hit)}

\* One feature: ST_AsGeoJSON(ST_SimplifyPreserveTopology(p.geometry, $1)) parsed,
\* with the properties read from the joined row
Feature(id, tol) ==
  LET r == JoinedRow(id) IN
  [id             |-> id,
   geometry       |-> [envelope |-> parcels[id].geometry.v, simplifiedBy |-> tol],
   city           |-> r.city,
   areaAcres      |-> r.area_acres,
   estimatedPrice |-> r.estimated_price,
   zoningCode     |-> r.zoning_code,
   soilType       |-> r.soil_type]

NoBBox == [north |-> 0, south |-> 0, east |-> 0, west |-> 0, zoom |-> Undefined]
NoGeoQuery == [binds |-> <<>>]
NoResult == [status |-> "none", data |-> <<>>]
NoPrevGeo == [set |-> FALSE, zoom |-> Undefined, tolerance |-> 0]
NoStatsRow == [total_parcels |-> 0, total_area_acres |-> Null, avg_price |-> Null,
               min_price |-> Null, max_price |-> Null, avg_area_acres |-> Null]
NoStats == [status |-> "none"]
NoSeedRow == [areaAcres |-> 0, areaSqft |-> 0]

\* getParcelGeoJSON(bbox) up to its await: pick the tolerance, issue the statement
GetParcelGeoJSON(bbox) ==
  /\ geoPc \in {"idle", "done", "rejected"}
  /\ geoCalls < MaxGeoCalls
  /\ geoBBox' = bbox
  /\ tolerance' = ToleranceFor(ZoomOf(bbox))
  /\ geoQuery' = MakeGeoQuery(bbox)
  /\ geoResult' = <<>>
  /\ geoCalls' = geoCalls + 1
  /\ prevGeo' = IF geoPc = "done"
                  THEN [set |-> TRUE, zoom |-> geoBBox.zoom, tolerance |-> tolerance]
                  ELSE NoPrevGeo
  /\ geoPc' = "query"
  /\ UNCHANGED storeVars
  /\ UNCHANGED searchVars
  /\ UNCHANGED opVars

\* The store answers the feature statement; getParcelGeoJSON builds the collection
GeoQuery ==
  /\ geoPc = "query"
  /\ \E o \in ExecGeo(geoQuery) :
       geoResult' = [i \in 1..Len(o) |-> Feature(o[i], geoQuery.binds[1])]
  /\ geoPc' = "done"
  /\ UNCHANGED <<geoBBox, tolerance, geoQuery, geoCalls, prevGeo>>
  /\ UNCHANGED storeVars
  /\ UNCHANGED searchVars
  /\ UNCHANGED opVars

\* bboxQuerySchema accepts the query: latitudes in [-90, 90], longitudes in
\* [-180, 180], zoom absent or in [0, 22]; the four bounds are not compared
BBoxSchemaAccepts(query) ==
  /\ query.north >= -90 /\ query.north <= 90
  /\ query.south >= -90 /\ query.south <= 90
  /\ query.east >= -180 /\ query.east <= 180
  /\ query.west >= -180 /\ query.west <= 180
  /\ query.zoom = Undefined \/ (query.zoom.v >= 0 /\ query.zoom.v <= 22)

\* validate(bboxQuerySchema, 'query') refuses the request before the handler runs
GeoReject(query) ==
  /\ geoPc \in {"idle", "done", "rejected"}
  /\ geoCalls < MaxGeoCalls
  /\ geoBBox' = query
  /\ tolerance' = 0
  /\ geoQuery' = NoGeoQuery
  /\ geoResult' = <<>>
  /\ geoCalls' = geoCalls + 1
  /\ prevGeo' = NoPrevGeo
  /\ geoPc' = "rejected"
  /\ UNCHANGED storeVars
  /\ UNCHANGED searchVars
  /\ UNCHANGED opVars

\* GET /api/parcels/bbox
HttpBBox(query) ==
  IF BBoxSchemaAccepts(query) THEN GetParcelGeoJSON(query) ELSE GeoReject(query)

(***************************************************************************)
(* getParcelsInBBox                                                        *)
(***************************************************************************)
\* The list statement: ..., west, south, east, north
MakeListQuery(bbox) == [binds |-> <<bbox.west, bbox.south, bbox.east, bbox.north>>]

\* The rows of the list statement: WHERE p.geometry && ST_MakeEnvelope($1, $2, $3,
\* $4, 4326) LIMIT 500, no ORDER BY
\* The list statement with the valuation joined as an inner join
ExecListInnerJoin(q) ==
  LET hit == {id \in ParcelIds :
                /\ Overlaps(parcels[id].geometry, q.binds[1], q.binds[2], q.binds[3], q.binds[4])
                /\ LatestPrice(id) # Null}
  IN {CapRows(o) : o \in ScanOrders(hit)}

ExecList(q) ==
  LET hit == {id \in ParcelIds :
                Overlaps(parcels[id].geometry, q.binds[1], q.binds[2], q.binds[3], q.binds[4])}
  IN {CapRows(o) : o \in ScanOrders(hit)}

\* parcels.map((p) => ({...})) of getParcelsInBBox
ListItem(id) ==
  LET r == JoinedRow(id) IN
  [id             |-> r.id,
   city           |-> JsOr(r.city, Undefined),
   areaAcres      |-> r.area_acres,
   estimatedPrice |-> JsOr(r.estimated_price, Undefined),
   zoningCode     |-> JsOr(r.zoning_code, Undefined)]

ListSettled == listPc \in {"idle", "done", "rejected"}

\* getParcelsInBBox(bbox) up to its await: issue the list statement
GetParcelsInBBox(bbox) ==
  /\ ListSettled
  /\ opCalls < MaxOpCalls
  /\ listQuery' = MakeListQuery(bbox)
  /\ listResult' = NoResult
  /\ listPc' = "query"
  /\ opCalls' = opCalls + 1
  /\ UNCHANGED storeVars
  /\ UNCHANGED searchVars
  /\ UNCHANGED geoVars
  /\ UNCHANGED <<nearVars, statsVars>>
  /\ UNCHANGED auxVars

\* The store answers the list statement; the route sends the mapped rows
ListQuery ==
  /\ listPc = "query"
  /\ \E o \in ExecList(listQuery) :
       listResult' = [status |-> "ok", data |-> [i \in 1..Len(o) |-> ListItem(o[i])]]
  /\ listPc' = "done"
  /\ UNCHANGED <<listQuery, opCalls>>
  /\ UNCHANGED storeVars
  /\ UNCHANGED searchVars
  /\ UNCHANGED geoVars
  /\ UNCHANGED <<nearVars, statsVars>>
  /\ UNCHANGED auxVars

\* validate(bboxQuerySchema, 'query') refuses the request before the handler runs
ListReject ==
  /\ ListSettled
  /\ opCalls < MaxOpCalls
  /\ listQuery' = NoGeoQuery
  /\ listResult' = [status |-> "ValidationError", data |-> <<>>]
  /\ listPc' = "rejected"
  /\ opCalls' = opCalls + 1
  /\ UNCHANGED storeVars
  /\ UNCHANGED searchVars
  /\ UNCHANGED geoVars
  /\ UNCHANGED <<nearVars, statsVars>>
  /\ UNCHANGED auxVars

\* GET /api/parcels/list
HttpList(query) ==
  IF BBoxSchemaAccepts(query) THEN GetParcelsInBBox(query) ELSE ListReject

(***************************************************************************)
(* getParcelsNearPoint                                                     *)
(***************************************************************************)
\* ST_Distance(p.geometry::geography, point::geography): the distance in metres from
\* the point to the parcel, 0 inside it (here along the axes, one unit a metre)
Distance(g, lng, lat) ==
  Max(Max(g.v.w - lng, lng - g.v.e), 0) + Max(Max(g.v.s - lat, lat - g.v.n), 0)

\* The near-point statement is rejected: a bound value that is no number, or a
\* negative LIMIT
NearQueryFails(q) ==
  \/ \E i \in 1..4 : q.binds[i].k # "num"
  \/ q.binds[4].v < 0

\* WHERE ST_DWithin(p.geometry::geography, point::geography, $3)
Within(id, q) ==
  /\ parcels[id].geometry.k = "geom"
  /\ Distance(parcels[id].geometry, q.binds[1].v, q.binds[2].v) <= q.binds[3].v

\* Variant: ORDER BY distance_meters DESC
NearOrderedDescending(o, q) ==
  \A i, j \in 1..Len(o) :
    i < j => Distance(parcels[o[i]].geometry, q.binds[1].v, q.binds[2].v)
               >= Distance(parcels[o[j]].geometry, q.binds[1].v, q.binds[2].v)

\* ORDER BY distance_meters: rows at the same distance come in any order
NearOrdered(o, q) ==
  \A i, j \in 1..Len(o) :
    i < j => Distance(parcels[o[i]].geometry, q.binds[1].v, q.binds[2].v)
               <= Distance(parcels[o[j]].geometry, q.binds[1].v, q.binds[2].v)

\* One row of the near-point statement
NearRow(id, q) ==
  LET r == JoinedRow(id) IN
  [id |-> r.id, city |-> r.city, area_acres |-> r.area_acres,
   estimated_price |-> r.estimated_price, zoning_code |-> r.zoning_code,
   distance_meters |-> Num(Distance(parcels[id].geometry, q.binds[1].v, q.binds[2].v))]

\* Every result the near-point statement may return: ... ORDER BY distance_meters LIMIT $4
ExecNear(q) ==
  LET hit == {id \in ParcelIds : Within(id, q)} IN
  { [i \in 1..Min(Len(o), q.binds[4].v) |-> NearRow(o[i], q)] :
      o \in {x \in Perms(hit) : NearOrdered(x, q)} }

\* parcels.map((p) => ({...})) of getParcelsNearPoint
NearItem(r) ==
  [id             |-> r.id,
   city           |-> JsOr(r.city, Undefined),
   areaAcres      |-> r.area_acres,
   estimatedPrice |-> JsOr(r.estimated_price, Undefined),
   zoningCode     |-> JsOr(r.zoning_code, Undefined),
   distanceMeters |-> r.distance_meters]

NearSettled == nearPc \in {"idle", "done", "rejected", "failed"}

\* getParcelsNearPoint(lng, lat, radiusMeters, limit = 20) up to its await
GetParcelsNearPoint(who, lng, lat, radiusMeters, limit) ==
  /\ NearSettled
  /\ opCalls < MaxOpCalls
  /\ nearCaller' = who
  /\ nearQuery' = [binds |-> <<lng, lat, radiusMeters,
                               IF limit = Undefined THEN Num(NearDefaultLimit) ELSE limit>>]
  /\ nearResult' = NoResult
  /\ nearPc' = "query"
  /\ opCalls' = opCalls + 1
  /\ UNCHANGED storeVars
  /\ UNCHANGED searchVars
  /\ UNCHANGED geoVars
  /\ UNCHANGED <<listVars, statsVars>>
  /\ UNCHANGED auxVars

\* The store answers the near-point statement. With a negative radius ST_DWithin is
\* true of no row, or the store raises an error: either may happen
NearQuery ==
  /\ nearPc = "query"
  /\ \/ /\ NearQueryFails(nearQuery) \/ nearQuery.binds[3].v < 0
        /\ nearResult' = [status |-> "StoreError", data |-> <<>>]
        /\ nearPc' = "failed"
     \/ /\ ~NearQueryFails(nearQuery)
        /\ \E rs \in ExecNear(nearQuery) :
             nearResult' = [status |-> "ok", data |-> [i \in 1..Len(rs) |-> NearItem(rs[i])]]
        /\ nearPc' = "done"
  /\ UNCHANGED <<nearCaller, nearQuery, opCalls>>
  /\ UNCHANGED storeVars
  /\ UNCHANGED searchVars
  /\ UNCHANGED geoVars
  /\ UNCHANGED <<listVars, statsVars>>
  /\ UNCHANGED auxVars

\* throw ApiError.badRequest('lat and lng are required')
NearBadRequest ==
  /\ NearSettled
  /\ opCalls < MaxOpCalls
  /\ nearCaller' = "http"
  /\ nearQuery' = NoGeoQuery
  /\ nearResult' = [status |-> "BadRequest", data |-> <<>>]
  /\ nearPc' = "rejected"
  /\ opCalls' = opCalls + 1
  /\ UNCHANGED storeVars
  /\ UNCHANGED searchVars
  /\ UNCHANGED geoVars
  /\ UNCHANGED <<listVars, statsVars>>
  /\ UNCHANGED auxVars

\* GET /api/parcels/nearby: const { lat, lng, radius = 1000, limit = 20 } = req.query
HttpNearby(query) ==
  IF ~Truthy(query.lat) \/ ~Truthy(query.lng) THEN NearBadRequest
  ELSE GetParcelsNearPoint("http",
         ParseFloat(query.lng),
         ParseFloat(query.lat),
         ParseFloat(IF query.radius = Undefined THEN Num(RouteDefaultRadius) ELSE query.radius),
         ParseInt(IF query.limit = Undefined THEN Num(RouteDefaultNearLimit) ELSE query.limit))

\* executeFunction, case 'getParcelsNearLocation'
ToolNearLocation(args) ==
  GetParcelsNearPoint("tool",
    args.longitude,
    args.latitude,
    JsOr(args.radiusMeters, Num(ToolDefaultRadius)),
    JsOr(args.limit, Num(ToolDefaultNearLimit)))

\* Requests of the nearby route: the point (1, 1), or no latitude
NearbyQueries ==
  { [lat |-> Str(<<"1">>), lng |-> Str(<<"1">>), radius |-> r, limit |-> l] :
      r \in {Undefined, Str(<<"0">>), Str(<<"-", "5">>), Str(<<"8">>)},
      l \in {Undefined, Str(<<"1">>), Str(<<"-", "1">>), Str(<<"x">>)} }
  \cup { [lat |-> Undefined, lng |-> Str(<<"1">>), radius |-> Undefined, limit |-> Undefined] }

\* Arguments of the getParcelsNearLocation tool
NearLocationArgs ==
  { [latitude |-> Num(1), longitude |-> Num(1), radiusMeters |-> r, limit |-> l] :
      r \in {Undefined, Num(0), Num(-5), Num(8)},
      l \in {Undefined, Num(1)} }

(***************************************************************************)
(* getParcelStats                                                          *)
(***************************************************************************)
RECURSIVE SumOf(_, _)
SumOf(f, S) ==
  IF S = {} THEN 0
  ELSE LET x == CHOOSE y \in S : TRUE IN f[x] + SumOf(f, S \ {x})

RECURSIVE Gcd(_, _)
Gcd(a, b) == IF b = 0 THEN a ELSE Gcd(b, a % b)

\* AVG over n non-null values that add up to sum: a whole number, or a fraction in
\* lowest terms
Mean(sum, n) ==
  IF sum % n = 0 THEN Num(sum \div n)
  ELSE [k |-> "ratio", n |-> sum \div Gcd(sum, n), d |-> n \div Gcd(sum, n)]

\* Variant: a parcel without valuation counts with price 0 (COALESCE(v.estimated_price, 0))
ExecStatsCoalesced ==
  LET price == [id \in ParcelIds |->
                  IF LatestPrice(id) = Null THEN 0 ELSE LatestPrice(id).v]
      area == [id \in ParcelIds |-> parcels[id].area_acres]
      n == Cardinality(ParcelIds)
  IN [total_parcels    |-> n,
      total_area_acres |-> IF n = 0 THEN Null ELSE Num(SumOf(area, ParcelIds)),
      avg_price        |-> IF n = 0 THEN Null ELSE Mean(SumOf(price, ParcelIds), n),
      min_price        |-> IF n = 0 THEN Null
                           ELSE Num(CHOOSE m \in {price[id] : id \in ParcelIds} :
                                      \A id \in ParcelIds : m <= price[id]),
      max_price        |-> IF n = 0 THEN Null
                           ELSE Num(CHOOSE m \in {price[id] : id \in ParcelIds} :
                                      \A id \in ParcelIds : m >= price[id]),
      avg_area_acres   |-> IF n = 0 THEN Null ELSE Mean(SumOf(area, ParcelIds), n)]

\* The row of the aggregate statement: one joined row per parcel (its latest
\* valuation, or NULL); COUNT counts the parcels, SUM / AVG / MIN / MAX skip NULLs
\* and are NULL over no value
ExecStats ==
  LET priced == {id \in ParcelIds : LatestPrice(id) # Null}
      price == [id \in priced |-> LatestPrice(id).v]
      area == [id \in ParcelIds |-> parcels[id].area_acres]
      n == Cardinality(ParcelIds)
      k == Cardinality(priced)
  IN [total_parcels    |-> n,
      total_area_acres |-> IF n = 0 THEN Null ELSE Num(SumOf(area, ParcelIds)),
      avg_price        |-> IF k = 0 THEN Null ELSE Mean(SumOf(price, priced), k),
      min_price        |-> IF k = 0 THEN Null
                           ELSE Num(CHOOSE m \in {price[id] : id \in priced} :
                                      \A id \in priced : m <= price[id]),
      max_price        |-> IF k = 0 THEN Null
                           ELSE Num(CHOOSE m \in {price[id] : id \in priced} :
                                      \A id \in priced : m >= price[id]),
      avg_area_acres   |-> IF n = 0 THEN Null ELSE Mean(SumOf(area, ParcelIds), n)]

\* The rows of the breakdown statement: one per zoning code in use with the number
\* of its land data rows, ORDER BY count DESC (equal counts in any order)
ExecBreakdown ==
  LET codes == {land_data[id].zoning_code : id \in DOMAIN land_data} \ {Null}
      count == [c \in codes |->
                  Cardinality({id \in DOMAIN land_data : land_data[id].zoning_code = c})]
  IN { [i \in 1..Len(o) |-> [zoning_code |-> o[i], count |-> count[o[i]]]] :
         o \in {x \in Perms(codes) :
                  \A i, j \in 1..Len(x) : i < j => count[x[i]] >= count[x[j]]} }

\* Variant: the aggregate columns are returned as read, without `|| 0`
StatsReturnRaw(row, breakdown) ==
  [status           |-> "ok",
   totalParcels     |-> Num(row.total_parcels),
   totalAreaAcres   |-> row.total_area_acres,
   averagePrice     |-> row.avg_price,
   minPrice         |-> row.min_price,
   maxPrice         |-> row.max_price,
   averageAreaAcres |-> row.avg_area_acres,
   zoningBreakdown  |-> [i \in 1..Len(breakdown) |->
                          [zoningCode |-> breakdown[i].zoning_code,
                           count |-> breakdown[i].count]]]

\* return { totalParcels: Number(stats[0].total_parcels), totalAreaAcres:
\* stats[0].total_area_acres || 0, ..., zoningBreakdown: zoningBreakdown.map(...) }
StatsReturn(row, breakdown) ==
  [status           |-> "ok",
   totalParcels     |-> Num(row.total_parcels),
   totalAreaAcres   |-> JsOr(row.total_area_acres, Num(0)),
   averagePrice     |-> JsOr(row.avg_price, Num(0)),
   minPrice         |-> JsOr(row.min_price, Num(0)),
   maxPrice         |-> JsOr(row.max_price, Num(0)),
   averageAreaAcres |-> JsOr(row.avg_area_acres, Num(0)),
   zoningBreakdown  |-> [i \in 1..Len(breakdown) |->
                          [zoningCode |-> breakdown[i].zoning_code,
                           count |-> breakdown[i].count]]]

\* getParcelStats() up to its first await: the aggregate statement is issued
GetParcelStats ==
  /\ statsPc \in {"idle", "done", "failed"}
  /\ opCalls < MaxOpCalls
  /\ statsRow' = NoStatsRow
  /\ statsResult' = NoStats
  /\ statsPc' = "aggregate"
  /\ opCalls' = opCalls + 1
  /\ UNCHANGED statsAt
  /\ UNCHANGED storeVars
  /\ UNCHANGED searchVars
  /\ UNCHANGED geoVars
  /\ UNCHANGED <<listVars, nearVars>>
  /\ UNCHANGED auxVars

\* The store answers the aggregate statement; the breakdown statement is issued
StatsAggregate ==
  /\ statsPc = "aggregate"
  /\ statsRow' = ExecStats
  /\ statsAt' = writes
  /\ statsPc' = "breakdown"
  /\ UNCHANGED <<statsResult, opCalls>>
  /\ UNCHANGED storeVars
  /\ UNCHANGED searchVars
  /\ UNCHANGED geoVars
  /\ UNCHANGED <<listVars, nearVars>>
  /\ UNCHANGED auxVars

\* The store answers the breakdown statement; getParcelStats returns
StatsBreakdown ==
  /\ statsPc = "breakdown"
  /\ \E breakdown \in ExecBreakdown : statsResult' = StatsReturn(statsRow, breakdown)
  /\ statsPc' = "done"
  /\ UNCHANGED <<statsAt, statsRow, opCalls>>
  /\ UNCHANGED storeVars
  /\ UNCHANGED searchVars
  /\ UNCHANGED geoVars
  /\ UNCHANGED <<listVars, nearVars>>
  /\ UNCHANGED auxVars

(***************************************************************************)
(* Store failures: an awaited statement rejects. No method of ParcelService *)
(* catches, so the rejection leaves the invocation at once                  *)
(***************************************************************************)
\* Variant: the rejection of the count statement is caught and the total defaults
\* to 0; the row statement is issued
CountQueryErrorSwallowed ==
  /\ pc = "count"
  /\ total' = 0
  /\ rowQuery' = MakeRowQuery(whereClause, values, paramIndex, params)
  /\ paramIndex' = paramIndex + 2
  /\ pc' = "rows"
  /\ UNCHANGED <<caller, params, conditions, values, whereClause, countQuery, sqlRows,
                 response, changed, searches, prev>>
  /\ UNCHANGED storeVars
  /\ UNCHANGED geoVars
  /\ UNCHANGED opVars

\* await prisma.$queryRawUnsafe(count statement) rejects: searchParcels throws
CountQueryError ==
  /\ pc = "count"
  /\ pc' = "failed"
  /\ response' = ErrorResponse("StoreError")
  /\ UNCHANGED <<caller, params, conditions, values, paramIndex, whereClause,
                 countQuery, rowQuery, total, sqlRows, changed, searches, prev>>
  /\ UNCHANGED storeVars
  /\ UNCHANGED geoVars
  /\ UNCHANGED opVars

\* await prisma.$queryRawUnsafe(row statement) rejects: searchParcels throws
RowQueryError ==
  /\ pc = "rows"
  /\ pc' = "failed"
  /\ response' = ErrorResponse("StoreError")
  /\ UNCHANGED <<caller, params, conditions, values, paramIndex, whereClause,
                 countQuery, rowQuery, total, sqlRows, changed, searches, prev>>
  /\ UNCHANGED storeVars
  /\ UNCHANGED geoVars
  /\ UNCHANGED opVars

\* await prisma.$queryRawUnsafe(aggregate statement) rejects: getParcelStats throws
StatsAggregateError ==
  /\ statsPc = "aggregate"
  /\ statsPc' = "failed"
  /\ statsResult' = [status |-> "StoreError"]
  /\ UNCHANGED <<statsAt, statsRow, opCalls>>
  /\ UNCHANGED storeVars
  /\ UNCHANGED searchVars
  /\ UNCHANGED geoVars
  /\ UNCHANGED <<listVars, nearVars>>
  /\ UNCHANGED auxVars

\* await prisma.$queryRawUnsafe(breakdown statement) rejects: getParcelStats throws
StatsBreakdownError ==
  /\ statsPc = "breakdown"
  /\ statsPc' = "failed"
  /\ statsResult' = [status |-> "StoreError"]
  /\ UNCHANGED <<statsAt, statsRow, opCalls>>
  /\ UNCHANGED storeVars
  /\ UNCHANGED searchVars
  /\ UNCHANGED geoVars
  /\ UNCHANGED <<listVars, nearVars>>
  /\ UNCHANGED auxVars

(***************************************************************************)
(* ChatbotService.chat on one session. messages is the chat_messages table  *)
(* of the session in createdAt order; a content is the number of the        *)
(* exchange it belongs to                                                   *)
(***************************************************************************)
HistoryTake == 20

otherVars ==
  <<parcels, land_data, valuations, writes, searchVars, geoVars, listVars, nearVars,
    statsVars, opCalls, seedVars>>

\* prisma.chatMessage.findMany({ where: { sessionId }, orderBy: { createdAt: 'asc' },
\* take: 20 })
FindHistory(ms) == SubSeq(ms, 1, Min(HistoryTake, Len(ms)))

IsDialogue(m) == m.role = "user" \/ m.role = "assistant"

\* history.filter(user or assistant).map(role 'user' or 'model', parts: content)
BuildChatHistory(history) ==
  LET kept == SelectSeq(history, IsDialogue) IN
  [i \in 1..Len(kept) |->
     [role |-> IF kept[i].role = "user" THEN "user" ELSE "model",
      content |-> kept[i].content]]

\* chatHistory.slice(0, -1)
DropLast(h) == SubSeq(h, 1, Len(h) - 1)

\* chat(request) up to the try block: the user message is saved
ChatSaveUser ==
  /\ chatPc \in {"idle", "done"}
  /\ chats < MaxChats
  /\ chats' = chats + 1
  /\ chatPrompt' = chats + 1
  /\ messages' = Append(messages, [role |-> "user", content |-> chats + 1])
  /\ chatHistory' = <<>>
  /\ chatSent' = <<>>
  /\ chatPc' = "history"
  /\ UNCHANGED otherVars

\* The history is read and filtered, the chat is started with all of it but the last
\* entry, and the prompt is sent
ChatStart ==
  /\ chatPc = "history"
  /\ chatHistory' = DropLast(BuildChatHistory(FindHistory(messages)))
  /\ chatSent' = <<[kind |-> "prompt", content |-> chatPrompt]>>
  /\ chatPc' = "sent"
  /\ UNCHANGED <<messages, chatPrompt, chats>>
  /\ UNCHANGED otherVars

\* The model answers with a function call: it is executed, saved as a message of
\* role 'function', and its result is sent back
ChatFunctionCall ==
  /\ chatPc = "sent"
  /\ messages' = Append(messages, [role |-> "function", content |-> chatPrompt])
  /\ chatSent' = Append(chatSent, [kind |-> "functionResponse", content |-> chatPrompt])
  /\ chatPc' = "called"
  /\ UNCHANGED <<chatPrompt, chatHistory, chats>>
  /\ UNCHANGED otherVars

\* The model's text is saved as the assistant message and returned
ChatAssistant ==
  /\ chatPc \in {"sent", "called"}
  /\ messages' = Append(messages, [role |-> "assistant", content |-> chatPrompt])
  /\ chatPc' = "done"
  /\ UNCHANGED <<chatPrompt, chatHistory, chatSent, chats>>
  /\ UNCHANGED otherVars

\* catch: anything thrown inside the try block ends in a saved assistant message
\* holding the apology
ChatError ==
  /\ chatPc \in {"history", "sent", "called"}
  /\ messages' = Append(messages, [role |-> "assistant", content |-> chatPrompt])
  /\ chatPc' = "done"
  /\ UNCHANGED <<chatPrompt, chatHistory, chatSent, chats>>
  /\ UNCHANGED otherVars

(***************************************************************************)
(* The area of a seeded parcel (seed.ts). An area is a whole number of      *)
(* 1/AcreUnits acre; a stored areaAcres is a whole number of thousandths of *)
(* an acre, a stored areaSqft a whole number of hundredths of a square foot *)
(***************************************************************************)
AcreUnits == 10000000
SqftPerAcre == 43560
MinParcelUnits == 5000000       \* CONFIG.minParcelSize = 0.5 acre
MaxParcelUnits == 250000000     \* CONFIG.maxParcelSize = 25 acres
UnitsPerMilliAcre == AcreUnits \div 1000

\* Variant: areaAcres rounded to two decimals
StoredAcresTwoDecimals(n) ==
  ((n + 5 * UnitsPerMilliAcre) \div (10 * UnitsPerMilliAcre)) * 10

\* Math.round(areaAcres * 1000) / 1000, in thousandths of an acre
StoredAcres(n) == (n + UnitsPerMilliAcre \div 2) \div UnitsPerMilliAcre

\* Math.round(areaSqft * 100) / 100 with areaSqft = areaAcres * 43560, in hundredths
\* of a square foot: round(n * 4356 / 10000), computed on the quotient and the
\* remainder of n by 10000 so that no product leaves 32 bits
StoredSqft(n) ==
  LET q == n \div UnitsPerMilliAcre
      r == n % UnitsPerMilliAcre
      k == SqftPerAcre \div 10
  IN q * k + (r * k + UnitsPerMilliAcre \div 2) \div UnitsPerMilliAcre

\* One turn of the generation loop: an area is drawn and the parcel row is built
GenerateParcel(n) ==
  /\ seedRow = NoSeedRow
  /\ seedArea' = n
  /\ seedRow' = [areaAcres |-> StoredAcres(n), areaSqft |-> StoredSqft(n)]
  /\ UNCHANGED storeVars
  /\ UNCHANGED searchVars
  /\ UNCHANGED geoVars
  /\ UNCHANGED <<listVars, nearVars, statsVars, opCalls, chatVars>>

\* The areas drawn: every area of the first hundredth of an acre above the minimum,
\* every area of the last thousandth below the maximum, and a grid over the range
SeedGridStep == 49999
SeedAreas ==
  {MinParcelUnits + i : i \in 0..(10 * UnitsPerMilliAcre)}
    \cup {MaxParcelUnits - i : i \in 1..UnitsPerMilliAcre}
    \cup {MinParcelUnits + SeedGridStep * i :
            i \in 0..((MaxParcelUnits - MinParcelUnits - 1) \div SeedGridStep)}

\* Area and city of the rows the seed script generates, taken in turn
SeedRows ==
  << [area_acres |-> 5, city |-> Str(<<"A", "b">>)],
     [area_acres |-> 12, city |-> Str(<<"C", "d">>)] >>

\* The seed script run on an empty store: prisma.parcel.createMany with n rows, then
\* the loop that sets every row's geometry (the rows take the envelopes of gs in turn)
SeedParcels(n, gs) ==
  /\ writes < MaxWrites
  /\ ParcelIds = {}
  /\ parcels' = [id \in 1..n |->
                   [area_acres |-> SeedRows[((id - 1) % Len(SeedRows)) + 1].area_acres,
                    city |-> SeedRows[((id - 1) % Len(SeedRows)) + 1].city,
                    geometry |-> Geom(gs[((id - 1) % Len(gs)) + 1])]]
  /\ writes' = writes + 1
  /\ UNCHANGED <<land_data, valuations>>
  /\ Committed

BulkSizes == {1, FeatureCap, MaxBulk}

\* One envelope for every row, or two envelopes taken in turn
GeometryLayouts == UNION {[1..k -> GeometryTemplates] : k \in 1..2}

\* Map requests: a box around the first envelope, the same box with north < south,
\* with north = south, with east < west, and a latitude out of range
MapQueries ==
  { [north |-> 3,  south |-> 0, east |-> 3, west |-> 0, zoom |-> Undefined],
    [north |-> 0,  south |-> 3, east |-> 3, west |-> 0, zoom |-> Undefined],
    [north |-> 1,  south |-> 1, east |-> 3, west |-> 0, zoom |-> Undefined],
    [north |-> 3,  south |-> 0, east |-> 0, west |-> 3, zoom |-> Undefined],
    [north |-> 91, south |-> 0, east |-> 3, west |-> 0, zoom |-> Undefined] }

ZoomInputs ==
  {Undefined} \cup {Num(z) : z \in {-1, 0, 9, 10, 11, 12, 13, 14, 15, 22, 23}}

BBoxInputs ==
  { [north |-> 3, south |-> 0, east |-> 3, west |-> 0, zoom |-> z] : z \in ZoomInputs }

(***************************************************************************)
(* Requests                                                                *)
(***************************************************************************)
\* Requests used against a changing store
StoreFilters ==
  { NoParams,
    [NoParams EXCEPT !.minAreaAcres = Num(10)],
    [NoParams EXCEPT !.minPrice = Num(100)],
    [NoParams EXCEPT !.minPrice = Num(0), !.maxPrice = Num(50)],
    [NoParams EXCEPT !.minAreaAcres = Num(10), !.zoningCodes = List(<<"AGRICULTURAL">>)],
    [NoParams EXCEPT !.hasWaterAccess = Bool(FALSE)],
    [NoParams EXCEPT !.city = Str(<<"a">>)],
    [NoParams EXCEPT !.zoningCodes = List(<<>>)] }

StoreBodies ==
  { [f EXCEPT !.limit = l, !.offset = o] :
      f \in StoreFilters, l \in {Undefined, Num(1)}, o \in {Undefined, Num(1)} }
  \cup { [NoParams EXCEPT !.limit = Num(0)] }

StoreArgs ==
  { [f EXCEPT !.limit = l] :
      f \in {NoParams, [NoParams EXCEPT !.minPrice = Num(100)]},
      l \in {Undefined, Num(1), Num(-1)} }

\* Every combination of present and absent filter fields
FilterLattice ==
  [minAreaAcres    : {Undefined, Num(10)},
   maxAreaAcres    : {Undefined, Num(20)},
   minPrice        : {Undefined, Num(0), Num(100)},
   maxPrice        : {Undefined, Num(200)},
   zoningCodes     : {Undefined, List(<<>>), List(<<"AGRICULTURAL">>)},
   soilTypes       : {Undefined, List(<<>>), List(<<"LOAM">>)},
   croplandClasses : {Undefined, List(<<>>), List(<<"PRIME">>)},
   hasWaterAccess  : {Undefined, Bool(TRUE), Bool(FALSE)},
   hasRoadAccess   : {Undefined, Bool(TRUE), Bool(FALSE)},
   city            : {Undefined, Str(<<>>), Str(<<"a", "%">>)},
   limit           : {Undefined, Num(2), Num(-1)},
   offset          : {Undefined, Num(1)}]

\* Requests at the edges of the schema: a null field, a minimum above its maximum,
\* limits around the schema's range, a negative offset
\* Values that hold quotes and SQL text
QuotedText == Str(<<"'", ";", "-", "-">>)
QuotedCode == "x' OR '1'='1"

EdgeFilters ==
  { [NoParams EXCEPT ![f] = Null] : f \in DOMAIN NoParams }
  \cup { [NoParams EXCEPT !.minAreaAcres = Num(20), !.maxAreaAcres = Num(10)],
         [NoParams EXCEPT !.minPrice = Num(200), !.maxPrice = Num(100)],
         [NoParams EXCEPT !.limit = Num(0)],
         [NoParams EXCEPT !.limit = Num(SchemaMaxLimit)],
         [NoParams EXCEPT !.limit = Num(SchemaMaxLimit + 1)],
         [NoParams EXCEPT !.offset = Num(-1)],
         [NoParams EXCEPT !.city = QuotedText, !.zoningCodes = List(<<QuotedCode>>)] }

(***************************************************************************)
(* Specifications                                                          *)
(***************************************************************************)
Init ==
  /\ parcels = <<>>
  /\ land_data = <<>>
  /\ valuations = {}
  /\ writes = 0
  /\ pc = "idle"
  /\ caller = "none"
  /\ params = NoParams
  /\ conditions = <<>>
  /\ values = <<>>
  /\ paramIndex = 1
  /\ whereClause = <<>>
  /\ countQuery = NoQuery
  /\ rowQuery = NoQuery
  /\ total = 0
  /\ sqlRows = <<>>
  /\ response = NoResponse
  /\ changed = FALSE
  /\ searches = 0
  /\ prev = NoPrev
  /\ geoPc = "idle"
  /\ geoBBox = NoBBox
  /\ tolerance = 0
  /\ geoQuery = NoGeoQuery
  /\ geoResult = <<>>
  /\ geoCalls = 0
  /\ prevGeo = NoPrevGeo
  /\ listPc = "idle"
  /\ listQuery = NoGeoQuery
  /\ listResult = NoResult
  /\ nearPc = "idle"
  /\ nearCaller = "none"
  /\ nearQuery = NoGeoQuery
  /\ nearResult = NoResult
  /\ statsPc = "idle"
  /\ statsAt = 0
  /\ statsRow = NoStatsRow
  /\ statsResult = NoStats
  /\ opCalls = 0
  /\ messages = <<>>
  /\ chatPc = "idle"
  /\ chatPrompt = 0
  /\ chatHistory = <<>>
  /\ chatSent = <<>>
  /\ chats = 0
  /\ seedArea = 0
  /\ seedRow = NoSeedRow

\* Searches against a store that the ingestion path changes concurrently
Next ==
  \/ Settled /\ \E body \in StoreBodies : HttpSearch(body)
  \/ Settled /\ \E args \in StoreArgs : ToolSearch(args)
  \/ CountQuery
  \/ RowQuery
  \/ Ingest

Spec == Init /\ [][Next]_vars

\* One search per behaviour, over every combination of filter fields
NextFilter ==
  \/ pc = "idle" /\ \E body \in FilterLattice : HttpSearch(body)
  \/ pc = "idle" /\ \E args \in FilterLattice : ToolSearch(args)
  \/ pc = "idle" /\ \E body \in EdgeFilters : HttpSearch(body)
  \/ pc = "idle" /\ \E args \in EdgeFilters : ToolSearch(args)
  \/ CountQuery
  \/ RowQuery

SpecFilter == Init /\ [][NextFilter]_vars

\* Feature queries against a store the ingestion path fills
NextBBox ==
  \/ \E bbox \in BBoxInputs : GetParcelGeoJSON(bbox)
  \/ GeoQuery
  \/ \E t \in ParcelTemplates : InsertParcel(t)
  \/ \E id \in ParcelIds, g \in GeometryTemplates : UpdateGeometry(id, g)
  \/ \E id \in ParcelIds, price \in Prices : InsertValuation(id, price)

SpecBBox == Init /\ [][NextBBox]_vars

\* The two map routes against a store the seed script fills
NextMap ==
  \/ geoCalls + opCalls < MaxGeoCalls /\ \E query \in MapQueries : HttpBBox(query)
  \/ GeoQuery
  \/ geoCalls + opCalls < MaxGeoCalls /\ \E query \in MapQueries : HttpList(query)
  \/ ListQuery
  \/ \E n \in BulkSizes, g \in GeometryTemplates : SeedParcels(n, <<g>>)

SpecMap == Init /\ [][NextMap]_vars

\* Near-point queries against a store the ingestion path fills
NextNear ==
  \/ \E query \in NearbyQueries : HttpNearby(query)
  \/ \E args \in NearLocationArgs : ToolNearLocation(args)
  \/ NearQuery
  \/ \E n \in 1..MaxParcels, gs \in GeometryLayouts : SeedParcels(n, gs)
  \/ \E t \in ParcelTemplates : InsertParcel(t)
  \/ \E id \in ParcelIds, g \in GeometryTemplates : UpdateGeometry(id, g)

SpecNear == Init /\ [][NextNear]_vars

\* Stats against a store the ingestion path fills
NextStats ==
  \/ GetParcelStats
  \/ StatsAggregate
  \/ StatsBreakdown
  \/ Ingest

SpecStats == Init /\ [][NextStats]_vars

\* No read operation is in flight
Quiet ==
  /\ Settled
  /\ geoPc \in {"idle", "done", "rejected"}
  /\ ListSettled
  /\ NearSettled
  /\ statsPc \in {"idle", "done"}

\* Requests of the read operations, one at a time
ReadBodies ==
  { NoParams,
    [NoParams EXCEPT !.minPrice = Num(0)],
    [NoParams EXCEPT !.maxPrice = Num(100)],
    [NoParams EXCEPT !.city = Str(<<"B">>)],
    [NoParams EXCEPT !.city = Str(<<"_">>)] }
ReadBBox == [north |-> 3, south |-> 0, east |-> 3, west |-> 0, zoom |-> Undefined]
ReadNearArgs ==
  [latitude |-> Num(1), longitude |-> Num(1), radiusMeters |-> Num(8), limit |-> Undefined]

\* Every read operation, one invocation at a time, against a store the seed script
\* and the ingestion path fill
NextRead ==
  \/ Quiet /\ searches + geoCalls + opCalls < MaxReads /\ \E body \in ReadBodies : HttpSearch(body)
  \/ CountQuery
  \/ RowQuery
  \/ Quiet /\ searches + geoCalls + opCalls < MaxReads /\ GetParcelGeoJSON(ReadBBox)
  \/ GeoQuery
  \/ Quiet /\ searches + geoCalls + opCalls < MaxReads /\ GetParcelsInBBox(ReadBBox)
  \/ ListQuery
  \/ Quiet /\ searches + geoCalls + opCalls < MaxReads /\ ToolNearLocation(ReadNearArgs)
  \/ NearQuery
  \/ Quiet /\ searches + geoCalls + opCalls < MaxReads /\ GetParcelStats
  \/ StatsAggregate
  \/ StatsBreakdown
  \/ \E n \in 1..MaxParcels, gs \in GeometryLayouts : SeedParcels(n, gs)
  \/ \E id \in ParcelIds, t \in LandTemplates : InsertLandData(id, t)
  \/ \E id \in ParcelIds, price \in Prices : InsertValuation(id, price)

SpecRead == Init /\ [][NextRead]_vars

\* Requests of the searches run against a store that may fail
FaultBodies ==
  { NoParams, [NoParams EXCEPT !.minPrice = Num(0), !.limit = Num(1)] }

\* Search and Stats against a store whose statements may fail
NextFault ==
  \/ \E body \in FaultBodies : HttpSearch(body)
  \/ CountQuery
  \/ CountQueryError
  \/ RowQuery
  \/ RowQueryError
  \/ GetParcelStats
  \/ StatsAggregate
  \/ StatsAggregateError
  \/ StatsBreakdown
  \/ StatsBreakdownError
  \/ \E n \in 1..MaxParcels, g \in GeometryTemplates : SeedParcels(n, <<g>>)
  \/ \E id \in ParcelIds, price \in Prices : InsertValuation(id, price)

SpecFault == Init /\ [][NextFault]_vars

\* Requests for the first and the second page of one row each
PageBodies ==
  { [NoParams EXCEPT !.limit = Num(1), !.offset = Num(o)] : o \in {0, 1} }

\* Two pages of the same search, one after the other, against a seeded store
NextPages ==
  \/ \E body \in PageBodies : HttpSearch(body)
  \/ CountQuery
  \/ RowQuery
  \/ \E n \in 1..MaxParcels, g \in GeometryTemplates : SeedParcels(n, <<g>>)
  \/ \E id \in ParcelIds, price \in Prices : InsertValuation(id, price)

SpecPages == Init /\ [][NextPages]_vars

\* Exchanges of one chat session, one after the other
NextChat ==
  \/ ChatSaveUser
  \/ ChatStart
  \/ ChatFunctionCall
  \/ ChatAssistant
  \/ ChatError

SpecChat == Init /\ [][NextChat]_vars

\* The generation loop of the seed script
NextSeed == seedRow = NoSeedRow /\ \E n \in SeedAreas : GenerateParcel(n)

SpecSeed == Init /\ [][NextSeed]_vars

(***************************************************************************)
(* Properties                                                              *)
(***************************************************************************)
Compiled == pc \in {"count", "rows", "done", "failed"}
RowIssued == rowQuery # NoQuery
HasPlaceholder(c) == c.n # 0
FilterFragments == SelectSeq(conditions, HasPlaceholder)

\* C1: the fragments compiled from the filter and the bound values are equally many,
\* and the fragments' placeholders are 1..N, each used once, in order; the only other
\* entry of conditions is the constant '1=1' at its head, which has no placeholder.
C1_IndicesAreOneToN ==
  Compiled =>
    /\ Len(FilterFragments) = Len(values)
    /\ \A i \in 1..Len(FilterFragments) : FilterFragments[i].n = i
    /\ {FilterFragments[i].n : i \in 1..Len(FilterFragments)} = 1..Len(values)
    /\ conditions[1] = Tok("1=1", 0)
    /\ Len(conditions) = Len(values) + 1

C1_Witness == pc = "rows" /\ Len(values) = 10

\* The filter field each fragment text constrains
FieldOfFragment(text) ==
  CASE text = "p.area_acres >= $" -> "minAreaAcres"
    [] text = "p.area_acres <= $" -> "maxAreaAcres"
    [] text = "v.estimated_price >= $" -> "minPrice"
    [] text = "v.estimated_price <= $" -> "maxPrice"
    [] text = "ld.zoning_code = ANY($" -> "zoningCodes"
    [] text = "ld.soil_type = ANY($" -> "soilTypes"
    [] text = "ld.cropland_class = ANY($" -> "croplandClasses"
    [] text = "ld.has_water_access = $" -> "hasWaterAccess"
    [] text = "ld.has_road_access = $" -> "hasRoadAccess"
    [] text = "LOWER(p.city) LIKE LOWER($" -> "city"

\* C2: the value bound at a fragment's placeholder is the value of the filter field
\* that fragment constrains (for city, the text between two % signs), whichever
\* fields are present.
C2_PlaceholderBindsOwnField ==
  Compiled =>
    \A i \in 1..Len(conditions) :
      conditions[i].n # 0 =>
        /\ conditions[i].n \in 1..Len(values)
        /\ LET f == FieldOfFragment(conditions[i].s)
               bound == values[conditions[i].n]
           IN IF f = "city"
                THEN /\ bound.k = "str"
                     /\ Len(bound.v) = Len(params.city.v) + 2
                     /\ bound.v[1] = "%"
                     /\ bound.v[Len(bound.v)] = "%"
                     /\ SubSeq(bound.v, 2, Len(bound.v) - 1) = params.city.v
                ELSE bound = params[f]

C2_Witness ==
  /\ pc = "rows"
  /\ params.minAreaAcres = Undefined
  /\ params.maxPrice # Undefined
  /\ params.zoningCodes = List(<<>>)
  /\ params.hasRoadAccess = Bool(FALSE)
  /\ params.city = Str(<<"a", "%">>)
  /\ Len(values) = 3

\* C3: with N filter values, the row statement has LIMIT at placeholder N+1 and
\* OFFSET at N+2, its bound values are the N filter values, then limit, then offset,
\* and no filter fragment uses placeholder N+1 or N+2.
C3_PaginationPlaceholders ==
  RowIssued =>
    LET N == Len(values) IN
    /\ rowQuery.limitPh = N + 1
    /\ rowQuery.offsetPh = N + 2
    /\ Len(rowQuery.binds) = N + 2
    /\ SubSeq(rowQuery.binds, 1, N) = values
    /\ rowQuery.binds[N + 1] =
         (IF params.limit = Undefined THEN Num(100) ELSE params.limit)
    /\ rowQuery.binds[N + 2] =
         (IF params.offset = Undefined THEN Num(0) ELSE params.offset)
    /\ \A i \in 1..Len(rowQuery.where) :
         rowQuery.where[i].n \notin {rowQuery.limitPh, rowQuery.offsetPh}

C3_Witness ==
  /\ pc = "done"
  /\ Len(values) = 2
  /\ rowQuery.binds[3] = Num(2)
  /\ rowQuery.binds[4] = Num(1)

\* C4: the count statement and the row statement of one invocation carry the same
\* WHERE text and the same filter values; the row statement adds only limit and offset.
C4_SameWhereForCountAndRows ==
  RowIssued =>
    /\ rowQuery.where = countQuery.where
    /\ Len(rowQuery.binds) = Len(countQuery.binds) + 2
    /\ SubSeq(rowQuery.binds, 1, Len(countQuery.binds)) = countQuery.binds
    /\ countQuery.where = Join(conditions)
    /\ countQuery.binds = values

C4_Witness == pc = "done" /\ Len(countQuery.binds) = 4 /\ Len(rowQuery.where) = 9

\* C5: the total of a completed search is at least the number of rows returned,
\* also when the ingestion path commits writes while the search runs.
C5_TotalCoversRows ==
  pc = "done" => response.total.v >= Len(response.data)

\* The offset the row statement ran with
ExecutedOffset == rowQuery.binds[rowQuery.offsetPh].v
ExecutedLimit == rowQuery.binds[rowQuery.limitPh].v

Contains(t, u) ==
  \E i \in 0..(Len(t) - Len(u)) : SubSeq(t, i + 1, i + Len(u)) = u

\* A parcel satisfies every filter condition the request carries
Satisfies(id, p) ==
  LET vs == {x \in valuations : x.parcel_id = id}
      hasLd == id \in DOMAIN land_data
      PriceOk(lo, hi) ==
        \E x \in vs :
          /\ \A y \in vs : y.valuation_date <= x.valuation_date
          /\ lo => x.estimated_price >= p.minPrice.v
          /\ hi => x.estimated_price <= p.maxPrice.v
      CodeIn(c, l) == c # Null /\ \E i \in 1..Len(l.v) : l.v[i] = c.v
  IN
  /\ p.minAreaAcres # Undefined => parcels[id].area_acres >= p.minAreaAcres.v
  /\ p.maxAreaAcres # Undefined => parcels[id].area_acres <= p.maxAreaAcres.v
  /\ (p.minPrice # Undefined \/ p.maxPrice # Undefined) =>
       PriceOk(p.minPrice # Undefined, p.maxPrice # Undefined)
  /\ (p.zoningCodes # Undefined /\ p.zoningCodes.v # <<>>) =>
       hasLd /\ CodeIn(land_data[id].zoning_code, p.zoningCodes)
  /\ (p.soilTypes # Undefined /\ p.soilTypes.v # <<>>) =>
       hasLd /\ CodeIn(land_data[id].soil_type, p.soilTypes)
  /\ (p.croplandClasses # Undefined /\ p.croplandClasses.v # <<>>) =>
       hasLd /\ CodeIn(land_data[id].cropland_class, p.croplandClasses)
  /\ p.hasWaterAccess # Undefined =>
       hasLd /\ land_data[id].has_water_access = p.hasWaterAccess.v
  /\ p.hasRoadAccess # Undefined =>
       hasLd /\ land_data[id].has_road_access = p.hasRoadAccess.v
  /\ (p.city # Undefined /\ p.city.v # <<>>) =>
       /\ parcels[id].city # Null
       /\ Contains(Lower(parcels[id].city.v), Lower(p.city.v))

\* C7: when no write is committed during the call, total is the number of parcels
\* that satisfy every filter condition of the request (limit and offset play no
\* part), and the page holds min(limit, max(0, total - offset)) rows.
C7_TotalAndPageSize ==
  (pc = "done" /\ ~changed) =>
    /\ response.total.v = Cardinality({id \in ParcelIds : Satisfies(id, params)})
    /\ Len(response.data) =
         Min(ExecutedLimit, Max(0, response.total.v - ExecutedOffset))

C7_Witness ==
  /\ pc = "done"
  /\ ~changed
  /\ params.minAreaAcres = Num(10)
  /\ params.zoningCodes = List(<<"AGRICULTURAL">>)
  /\ Cardinality(ParcelIds) = 2
  /\ response.total.v = 1
  /\ Len(response.data) = 1

\* C8: repeating a request against an unchanged store returns the same parcels in
\* the same order.
C8_RepeatGivesSameOrder ==
  (pc = "done" /\ prev.set) => response.data = prev.data

\* C9: in every page, prices do not increase from one row to the next, and a row
\* without a price is never followed by a row with one.
C9_PriceDescendingNullsLast ==
  pc = "done" =>
    /\ Len(response.data) = Len(sqlRows)
    /\ \A i \in 1..Len(sqlRows) : response.data[i].id = sqlRows[i].id
    /\ \A i, j \in 1..Len(sqlRows) :
         i < j =>
           \/ sqlRows[j].estimated_price = Null
           \/ /\ sqlRows[i].estimated_price # Null
              /\ sqlRows[i].estimated_price.v >= sqlRows[j].estimated_price.v

C9_Witness ==
  /\ pc = "done"
  /\ Len(sqlRows) = 2
  /\ sqlRows[1].estimated_price = Num(0)
  /\ sqlRows[2].estimated_price = Null

\* The zoom an invocation effectively used: 12 when the request has none
EffectiveZoom(z) == IF z = Undefined THEN 12 ELSE z.v

\* C10: the tolerance is one of the three bands for every zoom, two invocations with
\* the same zoom get the same tolerance, and a smaller zoom never gets a smaller
\* tolerance than a larger one (an absent zoom counting as 12).
C10_ToleranceMonotone ==
  /\ geoPc # "idle" => tolerance \in {1, 10, 100}
  /\ (geoPc # "idle" /\ prevGeo.set) =>
       LET z1 == EffectiveZoom(prevGeo.zoom)
           z2 == EffectiveZoom(geoBBox.zoom)
       IN /\ z1 < z2 => prevGeo.tolerance >= tolerance
          /\ z1 > z2 => prevGeo.tolerance <= tolerance
          /\ z1 = z2 => prevGeo.tolerance = tolerance

C10_Witness ==
  /\ geoPc = "done"
  /\ prevGeo.set
  /\ prevGeo.zoom = Num(9)
  /\ geoBBox.zoom = Undefined
  /\ prevGeo.tolerance = 100
  /\ tolerance = 10


\* C11: the bounding-box feature query and the bounding-box list query never return
\* more than 500 items, whatever the bounds and however many parcels intersect them
C11_AtMostFeatureCap ==
  /\ Len(geoResult) <= FeatureCap
  /\ Len(listResult.data) <= FeatureCap

\* More than 500 parcels intersect the box and both queries answered with 500 items
C11_Witness ==
  /\ geoPc = "done"
  /\ listPc = "done"
  /\ Cardinality(ParcelIds) > FeatureCap
  /\ Len(geoResult) = FeatureCap
  /\ Len(listResult.data) = FeatureCap

\* C13: a bounding-box query (features or list) whose north is not greater than
\* south, or whose east is not greater than west, fails with InvalidBounds and no
\* store query is issued for it: every statement issued carries north > south and
\* east > west
C13_NoQueryForInvalidBounds ==
  /\ geoQuery # NoGeoQuery =>
       geoQuery.binds[5] > geoQuery.binds[3] /\ geoQuery.binds[4] > geoQuery.binds[2]
  /\ listQuery # NoGeoQuery =>
       listQuery.binds[4] > listQuery.binds[2] /\ listQuery.binds[3] > listQuery.binds[1]

\* C12: the rows returned by the near-point query are in non-decreasing order of
\* distanceMeters, every row carries its distance, every returned distance is at most
\* the radiusMeters the query ran with, and at most limit rows are returned
C12_NearRowsOrderedAndBounded ==
  nearPc = "done" =>
    /\ \A i \in 1..Len(nearResult.data) :
         /\ nearResult.data[i].distanceMeters.k = "num"
         /\ nearResult.data[i].distanceMeters.v <= nearQuery.binds[3].v
    /\ \A i, j \in 1..Len(nearResult.data) :
         i < j => nearResult.data[i].distanceMeters.v <= nearResult.data[j].distanceMeters.v
    /\ Len(nearResult.data) <= nearQuery.binds[4].v

\* Two parcels at different distances, both within the radius, both returned
C12_Witness ==
  /\ nearPc = "done"
  /\ Len(nearResult.data) = 2
  /\ nearResult.data[1].distanceMeters.v < nearResult.data[2].distanceMeters.v
  /\ nearResult.data[2].distanceMeters.v = nearQuery.binds[3].v

\* C14: a near-point query with a non-positive radiusMeters, from the nearby route or
\* from the getParcelsNearLocation tool, fails with InvalidRadius instead of
\* executing the spatial query: no near-point statement is issued with a radius <= 0
C14_NoQueryForNonPositiveRadius ==
  nearQuery # NoGeoQuery =>
    nearQuery.binds[3].k = "num" /\ nearQuery.binds[3].v > 0

\* C15: when the store holds no parcels, Stats returns totalParcels 0, returns 0 for
\* the average, minimum and maximum price, the total area and the average area,
\* returns an empty category breakdown, and does not fail
C15_StatsOfEmptyStore ==
  statsPc = "done" /\ ParcelIds = {} =>
    statsResult = [status |-> "ok", totalParcels |-> Num(0), totalAreaAcres |-> Num(0),
                   averagePrice |-> Num(0), minPrice |-> Num(0), maxPrice |-> Num(0),
                   averageAreaAcres |-> Num(0), zoningBreakdown |-> <<>>]

\* getParcelStats has returned and the store has held no parcel all along
C15_Witness ==
  /\ statsPc = "done"
  /\ ParcelIds = {}
  /\ statsRow.avg_price = Null
  /\ statsResult.averagePrice = Num(0)

\* The parcels that have a valuation, and the price of a parcel's latest one
Priced == {id \in ParcelIds : \E x \in valuations : x.parcel_id = id}
IsLatestPrice(id, price) ==
  \E x \in valuations :
    /\ x.parcel_id = id
    /\ x.estimated_price = price
    /\ \A y \in valuations : y.parcel_id = id => y.valuation_date <= x.valuation_date

\* The numerator and denominator of a number read from the store
Numer(x) == IF x.k = "ratio" THEN x.n ELSE x.v
Denom(x) == IF x.k = "ratio" THEN x.d ELSE 1

\* C16: in Stats, totalParcels counts every parcel, including parcels with no
\* valuation, while the average, minimum and maximum price are computed only over the
\* latest valuation of the parcels that have one; hence totalParcels is at least the
\* number of parcels contributing to the average
C16_TotalCountsEveryParcel ==
  statsPc \in {"breakdown", "done"} /\ writes = statsAt =>
    /\ statsRow.total_parcels = Cardinality(ParcelIds)
    /\ statsRow.total_parcels >= Cardinality(Priced)
    /\ Priced = {} => statsRow.avg_price = Null /\ statsRow.min_price = Null
                      /\ statsRow.max_price = Null
    /\ Priced # {} =>
         /\ \E f \in [Priced -> Prices] :
              /\ \A id \in Priced : IsLatestPrice(id, f[id])
              /\ Numer(statsRow.avg_price) * Cardinality(Priced)
                   = Denom(statsRow.avg_price) * SumOf(f, Priced)
              /\ \E id \in Priced : statsRow.min_price = Num(f[id])
              /\ \A id \in Priced : statsRow.min_price.v <= f[id]
              /\ \E id \in Priced : statsRow.max_price = Num(f[id])
              /\ \A id \in Priced : statsRow.max_price.v >= f[id]
    /\ statsPc = "done" => statsResult.totalParcels = Num(Cardinality(ParcelIds))

\* Two parcels, one of them without valuation: the count is 2, the average is the
\* price of the other alone
C16_Witness ==
  /\ statsPc = "done"
  /\ writes = statsAt
  /\ Cardinality(ParcelIds) = 2
  /\ Cardinality(Priced) = 1
  /\ statsResult.totalParcels = Num(2)
  /\ statsResult.averagePrice = Num(100)

\* The number of fragments compiled for one filter step
FragmentCount(step) ==
  Cardinality({i \in 1..Len(conditions) : conditions[i].s = step.text})

\* C17: for each optional filter field, when the field is absent no condition
\* fragment and no bound value is emitted for it, and when it is given a concrete
\* non-null value (false and 0 included; an empty array is the case of C18) exactly
\* one fragment is emitted; a fragment comparing a column with NULL is never produced
C17_OneFragmentPerGivenField ==
  Compiled =>
    /\ \A k \in 1..Len(FilterSteps) :
         LET x == params[FilterSteps[k].field] IN
         /\ x = Undefined => FragmentCount(FilterSteps[k]) = 0
         /\ x \notin {Undefined, Null, List(<<>>)} => FragmentCount(FilterSteps[k]) = 1
    /\ Len(values) = Len(FilterFragments)
    /\ \A i \in 1..Len(values) : values[i] # Null

\* The filter with its empty set fields left out
WithoutEmptySets(p) ==
  [f \in DOMAIN p |-> IF f \in SetFields /\ p[f] = List(<<>>) THEN Undefined ELSE p[f]]

\* C18: an empty array for zoningCodes, soilTypes or croplandClasses is treated as
\* no constraint: the search compiles no fragment for the field and issues the
\* statements of the search with the field absent, so that on an unchanged store it
\* returns that search's total and rows
C18_EmptyArrayIsNoConstraint ==
  Compiled /\ (\E f \in SetFields : params[f] = List(<<>>)) =>
    LET st == BuildConditions(WithoutEmptySets(params))
        w == Join(st.conditions)
    IN /\ \A k \in 1..Len(FilterSteps) :
            params[FilterSteps[k].field] = List(<<>>) => FragmentCount(FilterSteps[k]) = 0
       /\ conditions = st.conditions
       /\ values = st.values
       /\ countQuery = MakeCountQuery(w, st.values)
       /\ RowIssued =>
            rowQuery = MakeRowQuery(w, st.values, st.paramIndex, WithoutEmptySets(params))
       /\ pc = "done" /\ ~changed =>
            /\ total = ExecCount(MakeCountQuery(w, st.values))
            /\ sqlRows \in ExecRows(MakeRowQuery(w, st.values, st.paramIndex,
                                                 WithoutEmptySets(params)))

\* A search with zoningCodes = [] has returned both parcels of the store
C18_Witness ==
  /\ pc = "done"
  /\ ~changed
  /\ params.zoningCodes = List(<<>>)
  /\ total = 2
  /\ Len(sqlRows) = 2
  /\ Cardinality(DOMAIN land_data) = 1

\* C19: every invocation of searchParcels, from the search route or from the
\* searchParcels tool, executes its row query with a limit in [1, 500] and an
\* offset >= 0
C19_LimitAndOffsetWithinBounds ==
  pc = "done" =>
    /\ ExecutedLimit >= SchemaMinLimit
    /\ ExecutedLimit <= SchemaMaxLimit
    /\ ExecutedOffset >= 0

MinExceedsMax(p) ==
  \/ p.minAreaAcres.k = "num" /\ p.maxAreaAcres.k = "num" /\ p.minAreaAcres.v > p.maxAreaAcres.v
  \/ p.minPrice.k = "num" /\ p.maxPrice.k = "num" /\ p.minPrice.v > p.maxPrice.v

\* C20: a search filter whose minAreaAcres exceeds maxAreaAcres, or whose minPrice
\* exceeds maxPrice, fails validation before the search is executed, so no store
\* query is issued for it
C20_NoQueryForMinAboveMax ==
  countQuery # [where |-> <<>>, binds |-> <<>>] /\ countQuery # NoQuery =>
    ~MinExceedsMax(params)

\* A parcel with neither valuation nor land data row
Bare(id) ==
  /\ id \in ParcelIds
  /\ id \notin DOMAIN land_data
  /\ \A x \in valuations : x.parcel_id # id

\* The ids of a list of rows, and whether each occurs once
IdsOf(rows) == {rows[i].id : i \in 1..Len(rows)}
EachOnce(rows) == Cardinality(IdsOf(rows)) = Len(rows)

\* The parcels whose geometry overlaps the box of a statement's bound values
InBox(w, s_, e, n) == {id \in ParcelIds : Overlaps(parcels[id].geometry, w, s_, e, n)}

\* C21: the feature query, the list query and the near-point query return every
\* parcel that satisfies the spatial predicate (up to the cap or limit) even when it
\* has no valuation and no land data row; such a parcel appears exactly once, with
\* its price and zoning / soil fields null or absent, and never makes the query fail
C21_BareParcelsAreReturned ==
  [][ /\ geoPc = "query" =>
           /\ geoPc' \in {"query", "done"}
           /\ geoPc' = "done" =>
                LET hit == InBox(geoQuery.binds[2], geoQuery.binds[3],
                                 geoQuery.binds[4], geoQuery.binds[5]) IN
                /\ EachOnce(geoResult')
                /\ IdsOf(geoResult') \subseteq hit
                /\ Len(geoResult') = Min(Cardinality(hit), FeatureCap)
                /\ \A i \in 1..Len(geoResult') :
                     Bare(geoResult'[i].id) =>
                       /\ geoResult'[i].estimatedPrice = Null
                       /\ geoResult'[i].zoningCode = Null
                       /\ geoResult'[i].soilType = Null
      /\ listPc = "query" =>
           /\ listPc' \in {"query", "done"}
           /\ listPc' = "done" =>
                LET hit == InBox(listQuery.binds[1], listQuery.binds[2],
                                 listQuery.binds[3], listQuery.binds[4]) IN
                /\ EachOnce(listResult'.data)
                /\ IdsOf(listResult'.data) \subseteq hit
                /\ Len(listResult'.data) = Min(Cardinality(hit), FeatureCap)
                /\ \A i \in 1..Len(listResult'.data) :
                     Bare(listResult'.data[i].id) =>
                       /\ listResult'.data[i].estimatedPrice = Undefined
                       /\ listResult'.data[i].zoningCode = Undefined
      /\ nearPc = "query" /\ ~NearQueryFails(nearQuery) /\ nearQuery.binds[3].v >= 0 =>
           /\ nearPc' \in {"query", "done"}
           /\ nearPc' = "done" =>
                LET hit == {id \in ParcelIds : Within(id, nearQuery)} IN
                /\ EachOnce(nearResult'.data)
                /\ IdsOf(nearResult'.data) \subseteq hit
                /\ Len(nearResult'.data) = Min(Cardinality(hit), nearQuery.binds[4].v)
                /\ \A i \in 1..Len(nearResult'.data) :
                     Bare(nearResult'.data[i].id) =>
                       /\ nearResult'.data[i].estimatedPrice = Undefined
                       /\ nearResult'.data[i].zoningCode = Undefined
    ]_vars

\* One of the three queries has answered with two parcels: one of them is bare, the
\* other has a valuation and a land data row
C21_Witness ==
  /\ Cardinality(ParcelIds) = 2
  /\ \E id \in ParcelIds : Bare(id)
  /\ \E id \in ParcelIds : id \in DOMAIN land_data /\ LatestPrice(id) = Num(100)
  /\ \/ geoPc = "done" /\ Len(geoResult) = 2
     \/ listPc = "done" /\ Len(listResult.data) = 2
     \/ nearPc = "done" /\ Len(nearResult.data) = 2

\* The request carries a price bound
HasPriceFilter(p) == p.minPrice # Undefined \/ p.maxPrice # Undefined

\* The city text of the request, if any, holds no LIKE wildcard
PlainCity(p) ==
  p.city = Undefined \/ \A i \in 1..Len(p.city.v) : p.city.v[i] \notin {"%", "_"}

\* C22: a parcel with zero valuations is matched by Search when the request has no
\* price filter, is neither returned nor counted when minPrice or maxPrice is
\* present whatever its value, and contributes nothing to the average, minimum and
\* maximum price of Stats
C22_UnvaluedParcels ==
  /\ (pc = "done" /\ ~changed /\ HasPriceFilter(params)) =>
       /\ IdsOf(response.data) \subseteq Priced
       /\ response.total.v <= Cardinality(Priced)
       /\ response.total.v = Cardinality({id \in Priced : Satisfies(id, params)})
  /\ (pc = "done" /\ ~changed /\ ~HasPriceFilter(params) /\ PlainCity(params)) =>
       /\ response.total.v =
            Cardinality({id \in ParcelIds : Satisfies(id, params)})
       /\ \A id \in ParcelIds \ Priced :
            Satisfies(id, params) /\ ExecutedOffset = 0
              /\ ExecutedLimit >= Cardinality(ParcelIds) => id \in IdsOf(response.data)
  /\ (statsPc \in {"breakdown", "done"} /\ writes = statsAt) =>
       /\ Priced = {} => statsRow.avg_price = Null /\ statsRow.min_price = Null
                         /\ statsRow.max_price = Null
       /\ Priced # {} =>
            /\ statsRow.min_price.v \in {LatestPrice(id).v : id \in Priced}
            /\ statsRow.max_price.v \in {LatestPrice(id).v : id \in Priced}
            /\ Numer(statsRow.avg_price) * Cardinality(Priced)
                 = Denom(statsRow.avg_price)
                     * SumOf([id \in Priced |-> LatestPrice(id).v], Priced)

\* A search with minPrice 0 answered on two parcels of which one has no valuation:
\* only the other is counted and returned
C22_Witness ==
  /\ pc = "done"
  /\ ~changed
  /\ params.minPrice = Num(0)
  /\ Cardinality(ParcelIds) = 2
  /\ Cardinality(Priced) = 1
  /\ response.total.v = 1
  /\ IdsOf(response.data) = Priced

\* Stats answered on two parcels of which one has no valuation and the other a
\* latest price of 0: the minimum and the average are those of the other alone
C22_WitnessStats ==
  /\ statsPc = "done"
  /\ writes = statsAt
  /\ Cardinality(ParcelIds) = 2
  /\ Cardinality(Priced) = 1
  /\ statsRow.min_price = Num(100)
  /\ statsRow.avg_price = Num(100)

\* The price a store row shows for a parcel is the price of its newest valuation
\* (NULL when it has none)
RowPriceIsLatest(id, shown) ==
  IF shown = Null THEN id \notin Priced ELSE IsLatestPrice(id, shown.v)

\* The price a mapped row shows for a parcel, when it shows one, is the price of its
\* newest valuation; when it shows none, no older valuation's price took its place
ItemPriceIsLatest(id, shown) ==
  IF shown = Undefined THEN id \notin Priced \/ IsLatestPrice(id, 0)
  ELSE IsLatestPrice(id, shown.v)

\* C23: in every current-state query (bbox list, bbox features, near-point, Search,
\* Stats) the price used for a parcel is the estimated price of the valuation whose
\* valuation date is the maximum among that parcel's valuations; exactly one
\* valuation per parcel is used
C23_PriceOfNewestValuation ==
  [][ /\ (geoPc = "query" /\ geoPc' = "done") =>
           /\ EachOnce(geoResult')
           /\ \A i \in 1..Len(geoResult') :
                RowPriceIsLatest(geoResult'[i].id, geoResult'[i].estimatedPrice)
      /\ (listPc = "query" /\ listPc' = "done") =>
           /\ EachOnce(listResult'.data)
           /\ \A i \in 1..Len(listResult'.data) :
                ItemPriceIsLatest(listResult'.data[i].id, listResult'.data[i].estimatedPrice)
      /\ (nearPc = "query" /\ nearPc' = "done") =>
           /\ EachOnce(nearResult'.data)
           /\ \A i \in 1..Len(nearResult'.data) :
                ItemPriceIsLatest(nearResult'.data[i].id, nearResult'.data[i].estimatedPrice)
      /\ (pc = "count" /\ pc' = "rows" /\ PlainCity(params)) =>
           total' = Cardinality({id \in ParcelIds : Satisfies(id, params)})
      /\ (pc = "rows" /\ pc' = "done") =>
           /\ EachOnce(sqlRows')
           /\ \A i \in 1..Len(sqlRows') :
                /\ RowPriceIsLatest(sqlRows'[i].id, sqlRows'[i].estimated_price)
                /\ PlainCity(params) => Satisfies(sqlRows'[i].id, params)
           /\ \A i \in 1..Len(response'.data) :
                ItemPriceIsLatest(response'.data[i].id, response'.data[i].estimatedPrice)
      /\ (statsPc = "aggregate" /\ statsPc' = "breakdown" /\ Priced # {}) =>
           \E f \in [Priced -> Prices] :
             /\ \A id \in Priced : IsLatestPrice(id, f[id])
             /\ Numer(statsRow'.avg_price) * Cardinality(Priced)
                  = Denom(statsRow'.avg_price) * SumOf(f, Priced)
             /\ statsRow'.min_price.v \in {f[id] : id \in Priced}
             /\ statsRow'.max_price.v \in {f[id] : id \in Priced}
             /\ \A id \in Priced : statsRow'.min_price.v <= f[id]
                                   /\ f[id] <= statsRow'.max_price.v
    ]_vars

\* A parcel valued at 0 first and at 100 later
Revalued(id) ==
  {x \in valuations : x.parcel_id = id} =
    { [parcel_id |-> id, valuation_date |-> 1, estimated_price |-> 0],
      [parcel_id |-> id, valuation_date |-> 2, estimated_price |-> 100] }

\* A query answered on a store whose only parcel was valued at 0 first and at 100
\* later: the row, or the aggregate, carries 100
C23_Witness ==
  /\ ParcelIds = {1}
  /\ Revalued(1)
  /\ \/ geoPc = "done" /\ Len(geoResult) = 1 /\ geoResult[1].estimatedPrice = Num(100)
     \/ listPc = "done" /\ Len(listResult.data) = 1
          /\ listResult.data[1].estimatedPrice = Num(100)
     \/ nearPc = "done" /\ Len(nearResult.data) = 1
          /\ nearResult.data[1].estimatedPrice = Num(100)
     \/ pc = "done" /\ Len(response.data) = 1 /\ response.data[1].estimatedPrice = Num(100)
     \/ statsPc = "done" /\ statsResult.minPrice = Num(100)

\* C24: each store query of an invocation is issued at most once; the failure of any
\* store query fails the whole invocation with that store error, with no partial or
\* default result and no retry; in searchParcels a failed count query means the row
\* query is never issued
C24_StoreFailureFailsInvocation ==
  [][ /\ (pc' = "count" /\ pc # "count") => searches' = searches + 1
      /\ (pc' = "rows" /\ pc # "rows") =>
           /\ pc = "count" /\ searches' = searches
           /\ total' = Cardinality(Matching(countQuery.where, countQuery.binds))
      /\ (pc = "count" /\ pc' = "failed") =>
           /\ rowQuery' = NoQuery
           /\ response' = ErrorResponse("StoreError")
      /\ (pc = "rows" /\ pc' = "failed") =>
           /\ response' = ErrorResponse("StoreError")
           /\ sqlRows' = <<>>
      /\ (pc = "failed" /\ searches' = searches) =>
           UNCHANGED <<pc, countQuery, rowQuery, total, sqlRows, response>>
      /\ (statsPc' = "aggregate" /\ statsPc # "aggregate") => opCalls' = opCalls + 1
      /\ (statsPc' = "breakdown" /\ statsPc # "breakdown") =>
           statsPc = "aggregate" /\ opCalls' = opCalls
      /\ (statsPc' = "failed" /\ statsPc # "failed") =>
           /\ statsPc \in {"aggregate", "breakdown"}
           /\ statsResult' = [status |-> "StoreError"]
           /\ statsPc = "aggregate" => statsRow' = NoStatsRow
      /\ (statsPc = "failed" /\ opCalls' = opCalls) =>
           UNCHANGED <<statsPc, statsRow, statsResult>>
    ]_vars

\* The store has failed the count statement of a well-formed search on a store with
\* parcels: the invocation has failed and no row statement was issued
C24_Witness ==
  /\ pc = "failed"
  /\ ~WhereFails(countQuery.where, countQuery.binds)
  /\ ParcelIds # {}
  /\ rowQuery = NoQuery
  /\ response.status = "StoreError"

\* The store has failed the breakdown statement of Stats after answering the
\* aggregate statement
C24_WitnessStats ==
  /\ statsPc = "failed"
  /\ statsRow # NoStatsRow
  /\ statsResult = [status |-> "StoreError"]

\* A filter field is present: given, and for a set field or the city text not empty
Present(p, f) ==
  CASE f \in NumericFields \cup FlagFields -> p[f] # Undefined
    [] f \in SetFields -> p[f].k = "list" /\ p[f].v # <<>>
    [] f = "city" -> p[f].k = "str" /\ p[f].v # <<>>
    [] OTHER -> p[f] # Undefined

\* Another value for a present field: a different number, the other flag, quoted SQL
\* text for a code or a city unless the field holds it already
OtherValue(p, f) ==
  CASE f \in NumericFields -> IF p[f].k = "num" THEN Num(p[f].v + 1) ELSE Num(7)
    [] f \in FlagFields -> IF p[f].k = "bool" THEN Bool(~p[f].v) ELSE Bool(TRUE)
    [] f \in SetFields -> IF p[f] = List(<<QuotedCode>>) THEN List(<<"LOAM", "CLAY">>)
                          ELSE List(<<QuotedCode>>)
    [] f = "city" -> IF p[f] = QuotedText THEN Str(<<"a">>) ELSE QuotedText
    [] OTHER -> Num(p[f].v + 1)

\* The filter object with the same present fields and every value changed
SamePresence(p) ==
  [f \in DOMAIN p |-> IF Present(p, f) THEN OtherValue(p, f) ELSE p[f]]

\* C25: the SQL text of the Search count and row statements depends only on which
\* filter fields are present, never on their values: the filter object with the same
\* present fields and other values (quotes and SQL text among them) compiles to the
\* same text, and the values travel only in the bound-value list
C25_TextIndependentOfValues ==
  Compiled =>
    LET q == SamePresence(params)
        st == BuildConditions(q)
        w == Join(st.conditions)
    IN /\ \A f \in DOMAIN params : Present(params, f) => q[f] # params[f]
       /\ MakeCountQuery(w, st.values).where = countQuery.where
       /\ \A i \in 1..Len(countQuery.where) :
            DOMAIN countQuery.where[i] = {"s", "n"}
       /\ Len(countQuery.binds) =
            Cardinality({f \in DOMAIN params \ {"limit", "offset"} : Present(params, f)})
       /\ RowIssued =>
            LET r == MakeRowQuery(w, st.values, st.paramIndex, q) IN
            /\ r.where = rowQuery.where
            /\ r.limitPh = rowQuery.limitPh
            /\ r.offsetPh = rowQuery.offsetPh
            /\ Len(rowQuery.binds) = Len(countQuery.binds) + 2

\* A search whose city and zoning codes hold quotes and SQL text has run: its
\* statements have the text of the same search with harmless values, and the quoted
\* values sit in the bound-value list
C25_Witness ==
  /\ pc = "done"
  /\ params.city = QuotedText
  /\ params.zoningCodes = List(<<QuotedCode>>)
  /\ rowQuery.where =
       Join(BuildConditions([NoParams EXCEPT !.city = Str(<<"a">>),
                                             !.zoningCodes = List(<<"LOAM">>)]).conditions)
  /\ rowQuery.binds[1] = List(<<QuotedCode>>)
  /\ rowQuery.binds[2] = Str(<<"%", "'", ";", "-", "-", "%">>)

\* C26: for every seeded parcel the stored areaAcres equals the stored areaSqft
\* divided by 43560 within a relative tolerance of 1e-3, after areaAcres is rounded
\* to 3 decimals and areaSqft to 2 decimals, for every area in [0.5, 25]. With A
\* thousandths of an acre and S hundredths of a square foot the two areas are
\* A / 1000 and S / 4356000 acres; the difference is taken relative to the smaller
C26_AcresMatchSqft ==
  seedRow # NoSeedRow =>
    LET a == (SqftPerAcre \div 10) * seedRow.areaAcres
        b == seedRow.areaSqft
        d == IF a >= b THEN a - b ELSE b - a
    IN /\ MinParcelUnits <= seedArea /\ seedArea <= MaxParcelUnits
       /\ d * 1000 <= Min(a, b)

\* A parcel of 0.5004999 acre is stored as 0.5 acre and 21801.78 square feet: the
\* two differ by exactly one thousandth of the stored acres
C26_Witness ==
  /\ seedArea = 5004999
  /\ seedRow = [areaAcres |-> 500, areaSqft |-> 2180178]

\* C27: the city filter matches exactly the parcels whose city contains the given
\* text as a substring, case-insensitively, for every non-empty text (a text holding
\* % or _ included); parcels with no city never match
C27_CityMatchesSubstring ==
  (pc = "done" /\ ~changed /\ params.city.k = "str" /\ params.city.v # <<>>) =>
    \A id \in ParcelIds :
      Satisfies(id, [params EXCEPT !.city = Undefined]) =>
        (id \in IdsOf(response.data)
           <=> /\ parcels[id].city # Null
               /\ Contains(Lower(parcels[id].city.v), Lower(params.city.v)))

\* C28: against an unchanged store and a fixed filter, the pages fetched with the
\* same limit L and offsets 0, L, 2L, ... are pairwise disjoint, and their union is
\* exactly the set of matching parcels, also when parcels tie on price or have none
C28_PagesPartitionMatches ==
  (pc = "done" /\ prev.paged /\ prev.offset # ExecutedOffset
     /\ {prev.offset, ExecutedOffset} = {0, ExecutedLimit}) =>
    /\ IdsOf(prev.data) \cap IdsOf(response.data) = {}
    /\ response.total.v <= 2 * ExecutedLimit =>
         IdsOf(prev.data) \cup IdsOf(response.data)
           = {id \in ParcelIds : Satisfies(id, params)}

\* C29: an attribute row of the bbox list, of Search or of near-point carries
\* estimatedPrice exactly when the parcel has at least one valuation, equal to the
\* latest valuation's estimated price, also when that price is 0; the minimum,
\* maximum and average price of Stats equal the true aggregate over the latest prices
C29_PriceCarriedWhenValued ==
  [][ /\ (listPc = "query" /\ listPc' = "done") =>
           \A i \in 1..Len(listResult'.data) :
             LET r == listResult'.data[i] IN
             IF r.id \in Priced THEN r.estimatedPrice = LatestPrice(r.id)
             ELSE r.estimatedPrice = Undefined
      /\ (nearPc = "query" /\ nearPc' = "done") =>
           \A i \in 1..Len(nearResult'.data) :
             LET r == nearResult'.data[i] IN
             IF r.id \in Priced THEN r.estimatedPrice = LatestPrice(r.id)
             ELSE r.estimatedPrice = Undefined
      /\ (pc = "rows" /\ pc' = "done") =>
           \A i \in 1..Len(response'.data) :
             LET r == response'.data[i] IN
             IF r.id \in Priced THEN r.estimatedPrice = LatestPrice(r.id)
             ELSE r.estimatedPrice = Undefined
      /\ (statsPc = "breakdown" /\ statsPc' = "done" /\ writes = statsAt /\ Priced # {}) =>
           LET price == [id \in Priced |-> LatestPrice(id).v] IN
           /\ statsResult'.minPrice.v \in {price[id] : id \in Priced}
           /\ statsResult'.maxPrice.v \in {price[id] : id \in Priced}
           /\ \A id \in Priced : statsResult'.minPrice.v <= price[id]
                                 /\ price[id] <= statsResult'.maxPrice.v
           /\ Numer(statsResult'.averagePrice) * Cardinality(Priced)
                = Denom(statsResult'.averagePrice) * SumOf(price, Priced)
    ]_vars

\* The place of the current prompt among the stored messages
PromptAt ==
  CHOOSE i \in 1..Len(messages) : messages[i] = [role |-> "user", content |-> chatPrompt]

\* The most recent (at most HistoryTake) stored messages before the current prompt,
\* oldest first, of role user or assistant
RecentDialogue ==
  LET before == SubSeq(messages, 1, PromptAt - 1)
      recent == SubSeq(before, Max(1, Len(before) - HistoryTake + 1), Len(before))
  IN BuildChatHistory(recent)

\* C30: the history ChatbotService.chat passes to the model consists of the most
\* recent (at most 20) stored messages of the session that precede the current
\* prompt, in chronological order, with only user and assistant roles, and never
\* contains the current prompt, which is sent separately exactly once
C30_HistoryIsRecentDialogue ==
  chatPc \in {"sent", "called"} =>
    /\ chatHistory = RecentDialogue
    /\ \A i \in 1..Len(chatHistory) :
         chatHistory[i] # [role |-> "user", content |-> chatPrompt]
    /\ Cardinality({i \in 1..Len(chatSent) :
                      chatSent[i] = [kind |-> "prompt", content |-> chatPrompt]}) = 1

====
